---- MODULE Spec2Model ----
(***************************************************************************)
(* NPU reference model (sw/ref/npu_ref.c, sw/ref/main.c).                  *)
(*                                                                         *)
(* The tiled multiplies are modelled statement by statement, one action    *)
(* per loop head and one per multiply-accumulate, so that the order of     *)
(* accumulation is part of the behaviour.  The direct multiplies and the   *)
(* data generators are operators that compute what the C code computes.    *)
(* Buffers are functions on 0..len-1, as the C arrays are.                 *)
(***************************************************************************)
EXTENDS Integers, Sequences, FiniteSets, Bags, TLC

VARIABLES
    pc,          \* position of the running function
    calls,       \* number of calls of the tiled function made so far
    \* ref_gemv_tiled: parameters and locals
    input, weights, output, input_dim, output_dim,
    o_tile, i_tile, o_end, i_end, o, i,
    \* ref_gemm_tiled: parameters and locals
    A, B, C, M, K, N,
    m_tile, k_tile, m_end, k_end, n, m, k,
    \* observation of the tiled functions
    touched,     \* bag of the index tuples accumulated in this call
    tile_log,    \* the tiles <<o_tile, i_tile>> entered in this call, in order
    last_mac,    \* the index tuple of the latest accumulation, <<>> if none
    prev_output, \* the output buffer as the previous call left it, <<>> if none
    \* ref_mac: parameters, and the accumulator before the call
    mac_input, mac_weight, acc, acc_before,
    \* a run of ref_mac calls over a list of operand pairs: the pairs, the
    \* indices of the pairs applied so far in the order of the calls, and the
    \* accumulator the run started with
    mac_pairs, mac_order, acc_start,
    \* ref_gemv: the layer it is given
    layer,
    \* generate_random_i8: parameters and loop index, the C library's generator
    data, len, seed, gen_i, rand_state,
    \* observation of generate_random_i8
    draws,       \* the values rand() returned since the latest srand()
    data_before, \* the buffer as it was when the running call was made
    gen_hist,    \* <<len, seed>> |-> what the first call with them generated
    rand_before, \* the C library's generator as it was when the call was made
    \* dump_to_hex_file, load_from_hex_file: the file, the parameters of the
    \* latest call and what it gave back to its caller
    file,        \* the characters of the file
    hex_data,    \* the buffer `data' as the call left it
    hex_len, width,
    fopen_ok,    \* whether fopen succeeded
    ret,         \* <<value returned>>, <<>> for a function returning void
    console,     \* the lines printed on stdout
    \* observation of the hex file functions
    hex_before,  \* the buffer `data' as it was when the call was made
    file_before, \* the file as it was when the call was made
    dumped,      \* <<data, len, width>> of the latest dump that wrote the file
    \* the MAC operation recorder of main.c
    mac_op_count, mac_inputs, mac_weights, mac_clears, mac_expected, mac_acc

gemvVars == <<input, weights, output, input_dim, output_dim,
              o_tile, i_tile, o_end, i_end, o, i>>
gemmVars == <<A, B, C, M, K, N, m_tile, k_tile, m_end, k_end, n, m, k>>
obsVars  == <<touched, tile_log, last_mac, prev_output>>
macVars  == <<mac_input, mac_weight, acc, acc_before, mac_pairs, mac_order,
              acc_start>>
genVars  == <<data, len, seed, gen_i, rand_state, draws, data_before, gen_hist,
              rand_before>>
hexVars  == <<file, hex_data, hex_len, width, fopen_ok, ret, console,
              hex_before, file_before, dumped>>
recVars  == <<mac_op_count, mac_inputs, mac_weights, mac_clears, mac_expected,
              mac_acc>>
\* the file functions and the recorder
ioVars   == <<hexVars, recVars>>
\* what the tiled multiplies leave alone
restVars == <<macVars, layer, genVars, ioVars>>
vars     == <<pc, calls, gemvVars, gemmVars, obsVars, restVars>>

----------------------------------------------------------------------------
(* Configuration, npu_ref.h *)

SUBARRAY_ROWS == 32
SUBARRAY_COLS == 8

(* Bounds of the model *)
MaxM     == 33      \* output_dim ranges over 0..MaxM
MaxK     == 17      \* input_dim ranges over 0..MaxK
MaxGK    == 9       \* K of a matrix product ranges over 0..MaxGK
MaxN     == 2       \* N of a matrix product ranges over 0..MaxN
MaxCalls == 2       \* calls of a tiled function on the same buffers
MaxMacCalls == 2    \* calls of ref_mac on the same accumulator
MaxLM    == 32      \* output_dim of a ref_gemv layer ranges over 0..MaxLM
MaxLK    == 8       \* input_dim of a ref_gemv layer ranges over 0..MaxLK
MaxLen   == 3       \* len of generate_random_i8 ranges over 0..MaxLen
MaxGenCalls == 3    \* calls of generate_random_i8 in one run

----------------------------------------------------------------------------
(* C integer types *)

\* TLC's integers are 32 bits wide: every definition below is written so that
\* no intermediate value leaves the int32 range.
INT32_MAX == 2147483647
INT32_MIN == (-INT32_MAX) - 1

\* a + b leaves the int32 range
AddOverflows(a, b) ==
    \/ (b > 0 /\ a > INT32_MAX - b)
    \/ (b < 0 /\ a < INT32_MIN - b)

\* the sum a + b reduced modulo 2^32 into the int32 range
WrapAdd32(a, b) ==
    IF ~AddOverflows(a, b) THEN a + b
    ELSE IF b > 0 THEN ((a - INT32_MAX) - 1) + ((b - INT32_MAX) - 1)
    ELSE ((a + INT32_MAX) + 1) + ((b + INT32_MAX) + 1)

\* conversion of an int to int8_t: the value modulo 2^8, as GCC defines it
ToInt8(x) == ((x + 128) % 256) - 128

\* int32_t a + b.  Signed overflow is undefined: any int32 may result, among
\* them the wrapped sum.
AddI32(a, b) ==
    IF ~AddOverflows(a, b) THEN {a + b}
    ELSE {WrapAdd32(a, b), INT32_MIN, INT32_MAX, 0}

Zeros(cnt) == [x \in 0..(cnt - 1) |-> 0]

----------------------------------------------------------------------------
(* Test data generation *)

\* generate_sequential_i8: data[i] = start + i, stored as int8_t
generate_sequential_i8(cnt, start) ==
    [x \in 0..(cnt - 1) |-> ToInt8(start + x)]

\* first values of the generated buffers, and what the output buffer holds
\* before the first call
InputStarts  == {1, 120}
WeightStarts == {-3}
GarbageFills == {0, -7}
AStarts      == {100}
BStarts      == {-5}
CFills       == {-7}

\* buffers and locals of a function that is not running
GemvIdle ==
    /\ input = <<>> /\ weights = <<>> /\ output = <<>>
    /\ input_dim = 0 /\ output_dim = 0
    /\ o_tile = 0 /\ i_tile = 0 /\ o_end = 0 /\ i_end = 0 /\ o = 0 /\ i = 0

GemmIdle ==
    /\ A = <<>> /\ B = <<>> /\ C = <<>>
    /\ M = 0 /\ K = 0 /\ N = 0
    /\ m_tile = 0 /\ k_tile = 0 /\ m_end = 0 /\ k_end = 0
    /\ n = 0 /\ m = 0 /\ k = 0

ObsIdle ==
    /\ touched = EmptyBag
    /\ tile_log = <<>>
    /\ last_mac = <<>>
    /\ prev_output = <<>>

OrderIdle == mac_pairs = <<>> /\ mac_order = <<>> /\ acc_start = 0

MacIdle ==
    /\ mac_input = 0 /\ mac_weight = 0 /\ acc = 0 /\ acc_before = 0
    /\ OrderIdle

LayerIdle == layer = <<>>

GenIdle ==
    /\ data = <<>> /\ len = 0 /\ seed = 0 /\ gen_i = 0
    /\ rand_state = <<>>
    /\ draws = <<>> /\ data_before = <<>> /\ gen_hist = <<>>
    /\ rand_before = <<>>

HexIdle ==
    /\ file = <<>> /\ hex_data = <<>> /\ hex_len = 0 /\ width = 0
    /\ fopen_ok = FALSE /\ ret = <<>> /\ console = <<>>
    /\ hex_before = <<>> /\ file_before = <<>> /\ dumped = <<>>

RecIdle ==
    /\ mac_op_count = 0 /\ mac_acc = 0
    /\ mac_inputs = <<>> /\ mac_weights = <<>>
    /\ mac_clears = <<>> /\ mac_expected = <<>>

IoIdle == HexIdle /\ RecIdle

RestIdle == MacIdle /\ LayerIdle /\ GenIdle /\ IoIdle

----------------------------------------------------------------------------
(* Direct multiplies: ref_gemv, ref_gemm *)

\* Both are pure functions of the layer L.  Their sums use WrapAdd32, which is the
\* exact sum whenever it fits in 32 bits; a sum of fewer than 2^17 products of
\* two int8 values always fits.

\* the value of `sum' in ref_gemv after cnt iterations of the loop over i
RECURSIVE GemvRowSum(_, _, _)
GemvRowSum(L, row, cnt) ==
    IF cnt = 0 THEN 0
    ELSE LET col     == cnt - 1
             idx     == row * L.input_dim + col
             product == L.weights[idx] * L.input[col]
         IN  WrapAdd32(GemvRowSum(L, row, cnt - 1), product)

\* mutant of ref_gemv: the sum is added into the bias buffer
ref_gemv_IntoBias(L) ==
    [L EXCEPT !.bias =
        [row \in DOMAIN L.bias |->
            IF row < L.output_dim
            THEN WrapAdd32(GemvRowSum(L, row, L.input_dim), L.bias[row])
            ELSE L.bias[row]]]

\* mutant of ref_gemv: the bias is not added
ref_gemv_NoBias(L) ==
    [L EXCEPT !.output =
        [row \in DOMAIN L.output |->
            IF row < L.output_dim
            THEN GemvRowSum(L, row, L.input_dim)
            ELSE L.output[row]]]

\* ref_gemv: output[o] = sum + bias[o] for every o < output_dim
ref_gemv(L) ==
    [L EXCEPT !.output =
        [row \in DOMAIN L.output |->
            IF row < L.output_dim
            THEN WrapAdd32(GemvRowSum(L, row, L.input_dim), L.bias[row])
            ELSE L.output[row]]]

\* the value of `sum' in ref_gemm after cnt iterations of the loop over k
RECURSIVE GemmCellSum(_, _, _, _)
GemmCellSum(L, row, col, cnt) ==
    IF cnt = 0 THEN 0
    ELSE LET kk      == cnt - 1
             idx_a   == row * L.K + kk
             idx_b   == kk * L.N + col
             product == L.A[idx_a] * L.B[idx_b]
         IN  WrapAdd32(GemmCellSum(L, row, col, cnt - 1), product)

\* ref_gemm: C[m * N + n] = sum for every m < M, n < N
ref_gemm(L) ==
    [L EXCEPT !.C =
        [x \in DOMAIN L.C |->
            IF L.N > 0 /\ x < L.M * L.N
            THEN GemmCellSum(L, x \div L.N, x % L.N, L.K)
            ELSE L.C[x]]]

----------------------------------------------------------------------------
(* ref_gemv_tiled *)

\* mutant of TileEnd: a last tile shorter than the tile size is skipped
TileEnd_SkipRagged(start, tile, dim) ==
    IF start + tile <= dim THEN start + tile ELSE start

\* (start + tile < dim) ? start + tile : dim
TileEnd(start, tile, dim) ==
    IF start + tile < dim THEN start + tile ELSE dim

InitGemvTiled ==
    /\ pc = "idle"
    /\ calls = 0
    /\ \E od \in 0..MaxM, id \in 0..MaxK,
          s \in InputStarts, t \in WeightStarts, g \in GarbageFills :
          /\ input_dim = id
          /\ output_dim = od
          /\ input = generate_sequential_i8(id, s)
          /\ weights = generate_sequential_i8(od * id, t)
          /\ output = [x \in 0..(od - 1) |-> g]
    /\ o_tile = 0 /\ i_tile = 0 /\ o_end = 0 /\ i_end = 0 /\ o = 0 /\ i = 0
    /\ touched = EmptyBag
    /\ tile_log = <<>>
    /\ last_mac = <<>>
    /\ prev_output = <<>>
    /\ GemmIdle
    /\ RestIdle

\* mutant of GemvTiledCall: the output buffer is not zeroed
GemvTiledCall_NoMemset ==
    /\ pc \in {"idle", "gemv_done"}
    /\ calls < MaxCalls
    /\ calls' = calls + 1
    /\ prev_output' = IF pc = "gemv_done" THEN output ELSE <<>>
    /\ output' = output
    /\ o_tile' = 0
    /\ pc' = "gemv_o_tile"
    /\ touched' = EmptyBag
    /\ tile_log' = <<>>
    /\ last_mac' = <<>>
    /\ UNCHANGED <<input, weights, input_dim, output_dim, i_tile, o_end, i_end, o, i,
                   gemmVars, restVars>>

\* entry: memset(output, 0, ...), then o_tile = 0
GemvTiledCall ==
    /\ pc \in {"idle", "gemv_done"}
    /\ calls < MaxCalls
    /\ calls' = calls + 1
    /\ prev_output' = IF pc = "gemv_done" THEN output ELSE <<>>
    /\ output' = Zeros(output_dim)
    /\ o_tile' = 0
    /\ pc' = "gemv_o_tile"
    /\ touched' = EmptyBag
    /\ tile_log' = <<>>
    /\ last_mac' = <<>>
    /\ UNCHANGED <<input, weights, input_dim, output_dim, i_tile, o_end, i_end, o, i,
                   gemmVars, restVars>>

\* for (o_tile = 0; o_tile < output_dim; o_tile += tile_rows): head
GemvTiledOTile ==
    /\ pc = "gemv_o_tile"
    /\ \/ /\ o_tile < output_dim
          /\ o_end' = TileEnd(o_tile, SUBARRAY_ROWS, output_dim)
          /\ i_tile' = 0
          /\ pc' = "gemv_i_tile"
       \/ /\ ~(o_tile < output_dim)
          /\ pc' = "gemv_done"
          /\ UNCHANGED <<o_end, i_tile>>
    /\ UNCHANGED <<calls, input, weights, output, input_dim, output_dim,
                   o_tile, i_end, o, i, obsVars, gemmVars, restVars>>

\* mutant of GemvTiledITile: the row tile advances by tile_cols
GemvTiledITile_ColsStep ==
    /\ pc = "gemv_i_tile"
    /\ \/ /\ i_tile < input_dim
          /\ i_end' = TileEnd(i_tile, SUBARRAY_COLS, input_dim)
          /\ o' = o_tile
          /\ tile_log' = Append(tile_log, <<o_tile, i_tile>>)
          /\ pc' = "gemv_o"
          /\ UNCHANGED o_tile
       \/ /\ ~(i_tile < input_dim)
          /\ o_tile' = o_tile + SUBARRAY_COLS
          /\ pc' = "gemv_o_tile"
          /\ UNCHANGED <<i_end, o, tile_log>>
    /\ UNCHANGED <<calls, input, weights, output, input_dim, output_dim,
                   i_tile, o_end, i, touched, last_mac, prev_output, gemmVars, restVars>>

\* for (i_tile = 0; i_tile < input_dim; i_tile += tile_cols): head
GemvTiledITile ==
    /\ pc = "gemv_i_tile"
    /\ \/ /\ i_tile < input_dim
          /\ i_end' = TileEnd(i_tile, SUBARRAY_COLS, input_dim)
          /\ o' = o_tile
          /\ tile_log' = Append(tile_log, <<o_tile, i_tile>>)
          /\ pc' = "gemv_o"
          /\ UNCHANGED o_tile
       \/ /\ ~(i_tile < input_dim)
          /\ o_tile' = o_tile + SUBARRAY_ROWS
          /\ pc' = "gemv_o_tile"
          /\ UNCHANGED <<i_end, o, tile_log>>
    /\ UNCHANGED <<calls, input, weights, output, input_dim, output_dim,
                   i_tile, o_end, i, touched, last_mac, prev_output, gemmVars, restVars>>

\* mutant of GemvTiledO: consecutive reduction tiles overlap by one column
GemvTiledO_Overlap ==
    /\ pc = "gemv_o"
    /\ \/ /\ o < o_end
          /\ i' = i_tile
          /\ pc' = "gemv_i"
          /\ UNCHANGED i_tile
       \/ /\ ~(o < o_end)
          /\ i_tile' = i_tile + SUBARRAY_COLS - 1
          /\ pc' = "gemv_i_tile"
          /\ UNCHANGED i
    /\ UNCHANGED <<calls, input, weights, output, input_dim, output_dim,
                   o_tile, o_end, i_end, o, obsVars, gemmVars, restVars>>

\* for (o = o_tile; o < o_end; o++): head
GemvTiledO ==
    /\ pc = "gemv_o"
    /\ \/ /\ o < o_end
          /\ i' = i_tile
          /\ pc' = "gemv_i"
          /\ UNCHANGED i_tile
       \/ /\ ~(o < o_end)
          /\ i_tile' = i_tile + SUBARRAY_COLS
          /\ pc' = "gemv_i_tile"
          /\ UNCHANGED i
    /\ UNCHANGED <<calls, input, weights, output, input_dim, output_dim,
                   o_tile, o_end, i_end, o, obsVars, gemmVars, restVars>>

\* for (i = i_tile; i < i_end; i++) { output[o] += weights[idx] * input[i]; }
GemvTiledI ==
    /\ pc = "gemv_i"
    /\ \/ /\ i < i_end
          /\ LET idx     == o * input_dim + i
                 product == weights[idx] * input[i]
             IN  \E r \in AddI32(output[o], product) :
                    output' = [output EXCEPT ![o] = r]
          /\ touched' = touched (+) SetToBag({<<o, i>>})
          /\ last_mac' = <<o, i>>
          /\ i' = i + 1
          /\ UNCHANGED <<o, pc>>
       \/ /\ ~(i < i_end)
          /\ o' = o + 1
          /\ pc' = "gemv_o"
          /\ UNCHANGED <<output, touched, last_mac, i>>
    /\ UNCHANGED <<calls, input, weights, input_dim, output_dim,
                   o_tile, i_tile, o_end, i_end, tile_log, prev_output, gemmVars, restVars>>

NextGemvTiled ==
    \/ GemvTiledCall
    \/ GemvTiledOTile
    \/ GemvTiledITile
    \/ GemvTiledO
    \/ GemvTiledI

SpecGemvTiled == InitGemvTiled /\ [][NextGemvTiled]_vars

----------------------------------------------------------------------------
(* ref_gemm_tiled *)

InitGemmTiled ==
    /\ pc = "idle"
    /\ calls = 0
    /\ \E dm \in 0..MaxM, dk \in 0..MaxGK, dn \in 0..MaxN,
          s \in AStarts, t \in BStarts, g \in CFills :
          /\ M = dm /\ K = dk /\ N = dn
          /\ A = generate_sequential_i8(dm * dk, s)
          /\ B = generate_sequential_i8(dk * dn, t)
          /\ C = [x \in 0..(dm * dn - 1) |-> g]
    /\ m_tile = 0 /\ k_tile = 0 /\ m_end = 0 /\ k_end = 0
    /\ n = 0 /\ m = 0 /\ k = 0
    /\ touched = EmptyBag
    /\ tile_log = <<>>
    /\ last_mac = <<>>
    /\ prev_output = <<>>
    /\ GemvIdle
    /\ RestIdle

\* entry: memset(C, 0, ...), then m_tile = 0
GemmTiledCall ==
    /\ pc \in {"idle", "gemm_done"}
    /\ calls < MaxCalls
    /\ calls' = calls + 1
    /\ prev_output' = IF pc = "gemm_done" THEN C ELSE <<>>
    /\ C' = Zeros(M * N)
    /\ m_tile' = 0
    /\ pc' = "gemm_m_tile"
    /\ touched' = EmptyBag
    /\ tile_log' = <<>>
    /\ last_mac' = <<>>
    /\ UNCHANGED <<A, B, M, K, N, k_tile, m_end, k_end, n, m, k, gemvVars, restVars>>

\* for (m_tile = 0; m_tile < M; m_tile += tile_m): head
GemmTiledMTile ==
    /\ pc = "gemm_m_tile"
    /\ \/ /\ m_tile < M
          /\ m_end' = TileEnd(m_tile, SUBARRAY_ROWS, M)
          /\ k_tile' = 0
          /\ pc' = "gemm_k_tile"
       \/ /\ ~(m_tile < M)
          /\ pc' = "gemm_done"
          /\ UNCHANGED <<m_end, k_tile>>
    /\ UNCHANGED <<calls, A, B, C, M, K, N, m_tile, k_end, n, m, k,
                   obsVars, gemvVars, restVars>>

\* for (k_tile = 0; k_tile < K; k_tile += tile_k): head
GemmTiledKTile ==
    /\ pc = "gemm_k_tile"
    /\ \/ /\ k_tile < K
          /\ k_end' = TileEnd(k_tile, SUBARRAY_COLS, K)
          /\ n' = 0
          /\ tile_log' = Append(tile_log, <<m_tile, k_tile>>)
          /\ pc' = "gemm_n"
          /\ UNCHANGED m_tile
       \/ /\ ~(k_tile < K)
          /\ m_tile' = m_tile + SUBARRAY_ROWS
          /\ pc' = "gemm_m_tile"
          /\ UNCHANGED <<k_end, n, tile_log>>
    /\ UNCHANGED <<calls, A, B, C, M, K, N, k_tile, m_end, m, k,
                   touched, last_mac, prev_output, gemvVars, restVars>>

\* mutant of GemmTiledN: only the first column is processed in a tile
GemmTiledN_FirstColumnOnly ==
    /\ pc = "gemm_n"
    /\ \/ /\ n < N /\ n < 1
          /\ m' = m_tile
          /\ pc' = "gemm_m"
          /\ UNCHANGED k_tile
       \/ /\ ~(n < N /\ n < 1)
          /\ k_tile' = k_tile + SUBARRAY_COLS
          /\ pc' = "gemm_k_tile"
          /\ UNCHANGED m
    /\ UNCHANGED <<calls, A, B, C, M, K, N, m_tile, m_end, k_end, n, k,
                   obsVars, gemvVars, restVars>>

\* for (n = 0; n < N; n++): head
GemmTiledN ==
    /\ pc = "gemm_n"
    /\ \/ /\ n < N
          /\ m' = m_tile
          /\ pc' = "gemm_m"
          /\ UNCHANGED k_tile
       \/ /\ ~(n < N)
          /\ k_tile' = k_tile + SUBARRAY_COLS
          /\ pc' = "gemm_k_tile"
          /\ UNCHANGED m
    /\ UNCHANGED <<calls, A, B, C, M, K, N, m_tile, m_end, k_end, n, k,
                   obsVars, gemvVars, restVars>>

\* for (m = m_tile; m < m_end; m++): head
GemmTiledM ==
    /\ pc = "gemm_m"
    /\ \/ /\ m < m_end
          /\ k' = k_tile
          /\ pc' = "gemm_k"
          /\ UNCHANGED n
       \/ /\ ~(m < m_end)
          /\ n' = n + 1
          /\ pc' = "gemm_n"
          /\ UNCHANGED k
    /\ UNCHANGED <<calls, A, B, C, M, K, N, m_tile, k_tile, m_end, k_end, m,
                   obsVars, gemvVars, restVars>>

\* mutant of GemmTiledK: B is indexed column-major
GemmTiledK_TransposedB ==
    /\ pc = "gemm_k"
    /\ \/ /\ k < k_end
          /\ LET idx_a   == m * K + k
                 idx_b   == n * K + k
                 product == A[idx_a] * B[idx_b]
             IN  \E r \in AddI32(C[m * N + n], product) :
                    C' = [C EXCEPT ![m * N + n] = r]
          /\ touched' = touched (+) SetToBag({<<m, n, k>>})
          /\ last_mac' = <<m, n, k>>
          /\ k' = k + 1
          /\ UNCHANGED <<m, pc>>
       \/ /\ ~(k < k_end)
          /\ m' = m + 1
          /\ pc' = "gemm_m"
          /\ UNCHANGED <<C, touched, last_mac, k>>
    /\ UNCHANGED <<calls, A, B, M, K, N, m_tile, k_tile, m_end, k_end, n,
                   tile_log, prev_output, gemvVars, restVars>>

\* for (k = k_tile; k < k_end; k++) { C[m * N + n] += A[idx_a] * B[idx_b]; }
GemmTiledK ==
    /\ pc = "gemm_k"
    /\ \/ /\ k < k_end
          /\ LET idx_a   == m * K + k
                 idx_b   == k * N + n
                 product == A[idx_a] * B[idx_b]
             IN  \E r \in AddI32(C[m * N + n], product) :
                    C' = [C EXCEPT ![m * N + n] = r]
          /\ touched' = touched (+) SetToBag({<<m, n, k>>})
          /\ last_mac' = <<m, n, k>>
          /\ k' = k + 1
          /\ UNCHANGED <<m, pc>>
       \/ /\ ~(k < k_end)
          /\ m' = m + 1
          /\ pc' = "gemm_m"
          /\ UNCHANGED <<C, touched, last_mac, k>>
    /\ UNCHANGED <<calls, A, B, M, K, N, m_tile, k_tile, m_end, k_end, n,
                   tile_log, prev_output, gemvVars, restVars>>

NextGemmTiled ==
    \/ GemmTiledCall
    \/ GemmTiledMTile
    \/ GemmTiledKTile
    \/ GemmTiledN
    \/ GemmTiledM
    \/ GemmTiledK

SpecGemmTiled == InitGemmTiled /\ [][NextGemmTiled]_vars

\* either tiled function, called on its own buffers
InitTiled == InitGemvTiled \/ InitGemmTiled
NextTiled == NextGemvTiled \/ NextGemmTiled
SpecTiled == InitTiled /\ [][NextTiled]_vars

----------------------------------------------------------------------------
(* ref_mac *)

Int8 == -128..127

\* the accumulator values ref_mac is called with first
AccStarts == {0, 100, INT32_MAX - 16000, INT32_MIN + 16000}

\* mutant of MacProduct: the product is truncated to 8 bits
MacProduct_Int8(inp, wt) == ToInt8(inp * wt)

\* int32_t product = (int32_t)input * (int32_t)weight
MacProduct(inp, wt) == inp * wt

\* mutant of ref_mac: the sum is kept in 16 bits
ref_mac_Acc16(inp, wt, a) ==
    {((a + MacProduct(inp, wt) + 32768) % 65536) - 32768}

\* mutant of ref_mac: the product is stored, not added
ref_mac_Overwrite(inp, wt, a) == {MacProduct(inp, wt)}

\* *acc += product: the values *acc may hold when ref_mac returns
ref_mac(inp, wt, a) == AddI32(a, MacProduct(inp, wt))

InitMac ==
    /\ pc = "idle"
    /\ calls = 0
    /\ mac_input \in Int8
    /\ mac_weight \in Int8
    /\ acc \in AccStarts
    /\ acc_before = acc
    /\ OrderIdle
    /\ GemvIdle /\ GemmIdle /\ ObsIdle /\ LayerIdle /\ GenIdle /\ IoIdle

\* one call ref_mac(mac_input, mac_weight, &acc)
RefMac ==
    /\ pc \in {"idle", "mac_done"}
    /\ calls < MaxMacCalls
    /\ calls' = calls + 1
    /\ acc_before' = acc
    /\ acc' \in ref_mac(mac_input, mac_weight, acc)
    /\ pc' = "mac_done"
    /\ UNCHANGED <<mac_input, mac_weight, mac_pairs, mac_order, acc_start,
                   gemvVars, gemmVars, obsVars, layer, genVars, ioVars>>

NextMac == RefMac

SpecMac == InitMac /\ [][NextMac]_vars

\* a run of ref_mac calls on one accumulator that starts at 0, as the
\* loop of test_mac_edge_cases makes them: the operands of the run are the
\* extreme int8 pairs and the test's own
ChainOperands == {<<-128, -128>>, <<127, -128>>, <<127, 127>>, <<-1, 1>>}

\* the number of terms of magnitude 128 * 128 whose sum is 2^31
ChainLimit == 2 ^ 17

InitMacChain ==
    /\ pc = "idle"
    /\ calls = 0
    /\ \E op \in ChainOperands : mac_input = op[1] /\ mac_weight = op[2]
    /\ acc = 0
    /\ acc_before = 0
    /\ OrderIdle
    /\ GemvIdle /\ GemmIdle /\ ObsIdle /\ LayerIdle /\ GenIdle /\ IoIdle

\* for (...) ref_mac(mac_input, mac_weight, &acc): one iteration
RefMacChain ==
    /\ pc \in {"idle", "mac_done"}
    /\ calls < ChainLimit
    /\ calls' = calls + 1
    /\ acc_before' = acc
    /\ acc' \in ref_mac(mac_input, mac_weight, acc)
    /\ pc' = "mac_done"
    /\ UNCHANGED <<mac_input, mac_weight, mac_pairs, mac_order, acc_start,
                   gemvVars, gemmVars, obsVars, layer, genVars, ioVars>>

NextMacChain == RefMacChain

SpecMacChain == InitMacChain /\ [][NextMacChain]_vars

\* runs of ref_mac calls over a list of operand pairs, the pairs taken in any
\* order: the pairs are those of test_mac_accumulation_patterns and the
\* extremes, the starting accumulators are 0 and values close to the
\* limits of int32_t
MaxPairs == 3

PairSamples == {<<10, 10>>, <<-10, 10>>, <<127, 127>>, <<127, -128>>}

OrderStarts == {0, INT32_MAX - 16200, INT32_MIN + 16200}

PairLists == UNION {[1..cnt -> PairSamples] : cnt \in 0..MaxPairs}

Applied == {mac_order[x] : x \in 1..Len(mac_order)}

InitMacOrder ==
    /\ pc = "idle"
    /\ calls = 0
    /\ mac_pairs \in PairLists
    /\ mac_order = <<>>
    /\ acc_start \in OrderStarts
    /\ acc = acc_start
    /\ acc_before = acc_start
    /\ mac_input = 0 /\ mac_weight = 0
    /\ GemvIdle /\ GemmIdle /\ ObsIdle /\ LayerIdle /\ GenIdle /\ IoIdle

\* ref_mac(input, weight, &acc) on one of the pairs not applied yet
RefMacPair ==
    /\ pc \in {"idle", "mac_done"}
    /\ \E idx \in (1..Len(mac_pairs)) \ Applied :
          /\ mac_input' = mac_pairs[idx][1]
          /\ mac_weight' = mac_pairs[idx][2]
          /\ acc' \in ref_mac(mac_pairs[idx][1], mac_pairs[idx][2], acc)
          /\ mac_order' = Append(mac_order, idx)
    /\ acc_before' = acc
    /\ calls' = calls + 1
    /\ pc' = "mac_done"
    /\ UNCHANGED <<mac_pairs, acc_start, gemvVars, gemmVars, obsVars, layer,
                   genVars, ioVars>>

NextMacOrder == RefMacPair

SpecMacOrder == InitMacOrder /\ [][NextMacOrder]_vars

----------------------------------------------------------------------------
(* ref_gemv on a GemvLayer *)

\* a buffer of cnt elements, all v
Fill(cnt, v) == [x \in 0..(cnt - 1) |-> v]

\* init_gemv_layer: the dimensions, and calloc'ed buffers
init_gemv_layer(id, od) ==
    [input_dim |-> id, output_dim |-> od,
     weights |-> Zeros(od * id), input |-> Zeros(id),
     output |-> Zeros(od), bias |-> Zeros(od)]

\* the biases the layers are given: none, row index * 10, and a negative one
Biases(od) ==
    {Zeros(od), [row \in 0..(od - 1) |-> row * 10], Fill(od, -100000)}

InitGemv ==
    /\ pc = "idle"
    /\ calls = 0
    /\ \E od \in 0..MaxLM, id \in 0..MaxLK :
       \E inp \in {Fill(id, 1), generate_sequential_i8(id, 120)},
          wts \in {Fill(od * id, 1), generate_sequential_i8(od * id, -3)},
          bs \in Biases(od) :
          layer = [init_gemv_layer(id, od) EXCEPT
                      !.input = inp, !.weights = wts, !.bias = bs]
    /\ GemvIdle /\ GemmIdle /\ ObsIdle /\ MacIdle /\ GenIdle /\ IoIdle

\* one call ref_gemv(layer)
RefGemv ==
    /\ pc = "idle"
    /\ "input_dim" \in DOMAIN layer      \* the layer is a GemvLayer
    /\ layer' = ref_gemv(layer)
    /\ calls' = calls + 1
    /\ pc' = "gemv_direct_done"
    /\ UNCHANGED <<gemvVars, gemmVars, obsVars, macVars, genVars, ioVars>>

NextGemv == RefGemv

SpecGemv == InitGemv /\ [][NextGemv]_vars

----------------------------------------------------------------------------
(* ref_gemm on a GemmLayer *)

\* init_gemm_layer: the dimensions, and calloc'ed buffers
init_gemm_layer(dm, dk, dn) ==
    [M |-> dm, K |-> dk, N |-> dn,
     A |-> Zeros(dm * dk), B |-> Zeros(dk * dn), C |-> Zeros(dm * dn)]

InitGemm ==
    /\ pc = "idle"
    /\ calls = 0
    /\ \E dm \in 0..MaxLM, dk \in 0..MaxLK, dn \in 0..MaxN,
          s \in AStarts, t \in BStarts, g \in CFills :
          layer = [init_gemm_layer(dm, dk, dn) EXCEPT
                      !.A = generate_sequential_i8(dm * dk, s),
                      !.B = generate_sequential_i8(dk * dn, t),
                      !.C = [x \in 0..(dm * dn - 1) |-> g]]
    /\ GemvIdle /\ GemmIdle /\ ObsIdle /\ MacIdle /\ GenIdle /\ IoIdle

\* one call ref_gemm(layer)
RefGemm ==
    /\ pc = "idle"
    /\ "K" \in DOMAIN layer      \* the layer is a GemmLayer
    /\ layer' = ref_gemm(layer)
    /\ calls' = calls + 1
    /\ pc' = "gemm_direct_done"
    /\ UNCHANGED <<gemvVars, gemmVars, obsVars, macVars, genVars, ioVars>>

----------------------------------------------------------------------------
(* The five compute primitives together, each on its largest operands *)

InitCompute ==
    \/ InitGemvTiled /\ output_dim = MaxM /\ input_dim = MaxK
    \/ InitGemmTiled /\ M = MaxM /\ K = MaxGK /\ N = MaxN
    \/ InitMac /\ mac_input \in {-128, 127} /\ mac_weight \in {-128, 3}
    \/ InitGemv /\ layer.output_dim = MaxLM /\ layer.input_dim = MaxLK
    \/ InitGemm /\ layer.M = MaxLM /\ layer.K = MaxLK /\ layer.N = MaxN

NextCompute ==
    \/ NextGemvTiled
    \/ NextGemmTiled
    \/ RefMac
    \/ RefGemv
    \/ RefGemm

SpecCompute == InitCompute /\ [][NextCompute]_vars

----------------------------------------------------------------------------
(* The all-ones tests of main.c: test_gemv_all_ones, test_tiled_accumulation *)

\* the dimensions of test_tiled_accumulation
AccInputDim  == 32
AccOutputDim == 32

\* test_gemv_all_ones: a SUBARRAY_ROWS x SUBARRAY_COLS layer of ones, no bias
InitGemvAllOnes ==
    /\ pc = "idle"
    /\ calls = 0
    /\ layer = [init_gemv_layer(SUBARRAY_COLS, SUBARRAY_ROWS) EXCEPT
                   !.input = Fill(SUBARRAY_COLS, 1),
                   !.weights = Fill(SUBARRAY_ROWS * SUBARRAY_COLS, 1),
                   !.bias = Zeros(SUBARRAY_ROWS)]
    /\ GemvIdle /\ GemmIdle /\ ObsIdle /\ MacIdle /\ GenIdle /\ IoIdle

\* test_tiled_accumulation: ones in calloc'ed buffers
InitTiledAccumulation ==
    /\ pc = "idle"
    /\ calls = 0
    /\ input_dim = AccInputDim
    /\ output_dim = AccOutputDim
    /\ input = Fill(AccInputDim, 1)
    /\ weights = Fill(AccOutputDim * AccInputDim, 1)
    /\ output = Zeros(AccOutputDim)
    /\ o_tile = 0 /\ i_tile = 0 /\ o_end = 0 /\ i_end = 0 /\ o = 0 /\ i = 0
    /\ touched = EmptyBag
    /\ tile_log = <<>>
    /\ last_mac = <<>>
    /\ prev_output = <<>>
    /\ GemmIdle
    /\ RestIdle

\* the sum of weights[row * input_dim + col] * input[col] over lo <= col < hi,
\* by halves; fewer than 2^17 products of int8 values do not add up to a
\* value outside int32_t, so the order of the additions does not matter
RECURSIVE DotRange(_, _, _)
DotRange(row, lo, hi) ==
    IF hi <= lo THEN 0
    ELSE IF hi = lo + 1 THEN weights[row * input_dim + lo] * input[lo]
    ELSE LET mid == (lo + hi) \div 2
         IN  DotRange(row, lo, mid) + DotRange(row, mid, hi)

\* output_direct[row] after cnt iterations of the loop over i of
\* test_tiled_accumulation
DirectRowSum(row, cnt) == DotRange(row, 0, cnt)

\* the direct computation of test_tiled_accumulation:
\* output_direct[o] = sum over i of weights[o * input_dim + i] * input[i]
output_direct ==
    [row \in 0..(output_dim - 1) |-> DirectRowSum(row, input_dim)]

InitAllOnes == InitGemvAllOnes \/ InitTiledAccumulation

NextAllOnes == RefGemv \/ NextGemvTiled

SpecAllOnes == InitAllOnes /\ [][NextAllOnes]_vars

----------------------------------------------------------------------------
(* The C library's srand() and rand(): glibc's additive feedback generator   *)
(* (random_r.c, TYPE_3).  Its state is process-wide: 31 words r and the two   *)
(* positions f and p.  The words are kept as int32 bit patterns.              *)

\* (uint32_t)v >> 1
Shr1U(v) ==
    IF v >= 0 THEN v \div 2
    ELSE (((v + INT32_MAX) + 1) \div 2) + 1073741824

\* a / b and a % b of C for b > 0: the quotient is rounded towards zero and
\* the remainder has the sign of a
DivC(a, b) == IF a >= 0 THEN a \div b ELSE (a + (b - 1)) \div b
RemC(a, b) == a - (b * DivC(a, b))

\* the next word of the seeding recurrence, 16807 * word mod (2^31 - 1);
\* word is an int32_t and is negative for a seed above INT32_MAX
SrandWord(word) ==
    LET hi == DivC(word, 127773)
        lo == RemC(word, 127773)
        w  == 16807 * lo - 2836 * hi
    IN  IF w < 0 THEN w + INT32_MAX ELSE w

RECURSIVE SrandFill(_, _)
SrandFill(st, cnt) ==
    IF cnt = 0 THEN st
    ELSE SrandFill(Append(st, SrandWord(st[Len(st)])), cnt - 1)

\* the value one rand() returns in state st, and the state it leaves; the
\* word r[x] of the C array is st.r[x + 1]
RandValue(st) == Shr1U(WrapAdd32(st.r[st.f + 1], st.r[st.p + 1]))
RandNext(st) ==
    [r |-> [st.r EXCEPT ![st.f + 1] = WrapAdd32(st.r[st.f + 1], st.r[st.p + 1])],
     f |-> (st.f + 1) % 31,
     p |-> (st.p + 1) % 31]

\* cnt calls of rand(), their values dropped (st.f is never negative:
\* reading it, and halving cnt, keep TLC's evaluation shallow)
RECURSIVE RandDiscard(_, _)
RandDiscard(st, cnt) ==
    IF cnt = 0 \/ st.f < 0 THEN st
    ELSE IF cnt = 1 THEN RandNext(st)
    ELSE RandDiscard(RandDiscard(st, cnt \div 2), cnt - (cnt \div 2))

\* srand(sd): seed 0 is taken as 1; 31 words are seeded and 310 values dropped
srand(sd) ==
    LET s0    == IF sd = 0 THEN 1 ELSE sd
        words == SrandFill(<<s0>>, 30)
    IN  RandDiscard([r |-> words, f |-> 3, p |-> 0], 310)

----------------------------------------------------------------------------
(* generate_random_i8 *)

\* the seeds of the calls; a negative seed seeds a negative first word
Seeds   == {1, 42, -INT32_MAX}
DataCap == MaxLen + 1      \* the caller's buffer is longer than any len

InitGen ==
    /\ pc = "idle"
    /\ calls = 0
    /\ data = Zeros(DataCap)
    /\ len = 0 /\ seed = 0 /\ gen_i = 0
    /\ rand_state = srand(1)      \* a process that never called srand
    /\ draws = <<>>
    /\ data_before = Zeros(DataCap)
    /\ gen_hist = <<>>
    /\ rand_before = srand(1)
    /\ GemvIdle /\ GemmIdle /\ ObsIdle /\ MacIdle /\ LayerIdle /\ IoIdle

\* a call generate_random_i8(data, l, sd)
GenerateCall ==
    /\ pc \in {"idle", "gen_done"}
    /\ calls < MaxGenCalls
    /\ calls' = calls + 1
    /\ \E l \in 0..MaxLen, sd \in Seeds : len' = l /\ seed' = sd
    /\ data_before' = data
    /\ rand_before' = rand_state
    /\ pc' = "gen_srand"
    /\ UNCHANGED <<data, gen_i, rand_state, draws, gen_hist,
                   gemvVars, gemmVars, obsVars, macVars, layer, ioVars>>

\* mutant of GenSrand: the generator is not reseeded
GenSrand_NoReseed ==
    /\ pc = "gen_srand"
    /\ rand_state' = rand_state
    /\ draws' = <<>>
    /\ gen_i' = 0
    /\ pc' = "gen_loop"
    /\ UNCHANGED <<calls, data, len, seed, data_before, gen_hist, rand_before,
                   gemvVars, gemmVars, obsVars, macVars, layer, ioVars>>

\* srand(seed); i = 0
GenSrand ==
    /\ pc = "gen_srand"
    /\ rand_state' = srand(seed)
    /\ draws' = <<>>
    /\ gen_i' = 0
    /\ pc' = "gen_loop"
    /\ UNCHANGED <<calls, data, len, seed, data_before, gen_hist, rand_before,
                   gemvVars, gemmVars, obsVars, macVars, layer, ioVars>>

\* what the call has generated: data[0..len)
Generated == [x \in 0..(len - 1) |-> data[x]]

\* mutant of GenLoop: the loop runs once too often
GenLoop_OffByOne ==
    /\ pc = "gen_loop"
    /\ \/ /\ gen_i <= len
          /\ data' = [data EXCEPT
                        ![gen_i] = ToInt8((RandValue(rand_state) % 256) - 128)]
          /\ draws' = Append(draws, RandValue(rand_state))
          /\ rand_state' = RandNext(rand_state)
          /\ gen_i' = gen_i + 1
          /\ UNCHANGED <<pc, gen_hist>>
       \/ /\ ~(gen_i <= len)
          /\ pc' = "gen_done"
          /\ gen_hist' = IF <<len, seed>> \in DOMAIN gen_hist THEN gen_hist
                         ELSE gen_hist @@ (<<len, seed>> :> Generated)
          /\ UNCHANGED <<data, draws, rand_state, gen_i>>
    /\ UNCHANGED <<calls, len, seed, data_before, rand_before,
                   gemvVars, gemmVars, obsVars, macVars, layer, ioVars>>

\* for (i = 0; i < len; i++) data[i] = (int8_t)((rand() % 256) - 128);
GenLoop ==
    /\ pc = "gen_loop"
    /\ \/ /\ gen_i < len
          /\ data' = [data EXCEPT
                        ![gen_i] = ToInt8((RandValue(rand_state) % 256) - 128)]
          /\ draws' = Append(draws, RandValue(rand_state))
          /\ rand_state' = RandNext(rand_state)
          /\ gen_i' = gen_i + 1
          /\ UNCHANGED <<pc, gen_hist>>
       \/ /\ ~(gen_i < len)
          /\ pc' = "gen_done"
          /\ gen_hist' = IF <<len, seed>> \in DOMAIN gen_hist THEN gen_hist
                         ELSE gen_hist @@ (<<len, seed>> :> Generated)
          /\ UNCHANGED <<data, draws, rand_state, gen_i>>
    /\ UNCHANGED <<calls, len, seed, data_before, rand_before,
                   gemvVars, gemmVars, obsVars, macVars, layer, ioVars>>

NextGen ==
    \/ GenerateCall
    \/ GenSrand
    \/ GenLoop

SpecGen == InitGen /\ [][NextGen]_vars

----------------------------------------------------------------------------
(* Hexadecimal text files: dump_to_hex_file, load_from_hex_file *)

\* A file is the sequence of its characters.  An unsigned 32-bit value is
\* kept as its two 16-bit halves <<high, low>>.

\* the digits that %X prints: digit d is HexChars[d + 1]
HexChars == <<"0", "1", "2", "3", "4", "5", "6", "7",
              "8", "9", "A", "B", "C", "D", "E", "F">>
\* the lower-case digits that %x also reads
LowerHexChars == <<"a", "b", "c", "d", "e", "f">>

\* the vertical tab, character 11
VT == ""

\* what isspace() accepts in the C locale
IsSpace(c) == c \in {" ", "\n", "\t", "\r", "\f", VT}

\* the value of c as a hexadecimal digit, -1 if it is none
HexDigitValue(c) ==
    IF \E d \in 1..16 : HexChars[d] = c
    THEN (CHOOSE d \in 1..16 : HexChars[d] = c) - 1
    ELSE IF \E d \in 1..6 : LowerHexChars[d] = c
    THEN (CHOOSE d \in 1..6 : LowerHexChars[d] = c) + 9
    ELSE -1

\* (uint32_t)v of an int32_t or int8_t v: sign extension, modulo 2^32
ToUint32(v) == <<(v \div 65536) % 65536, v % 65536>>

\* (uint8_t)v, as an unsigned int
ToUint8(v) == <<0, v % 256>>

\* (int32_t)u of an unsigned int u
ToInt32(u) ==
    IF u[1] >= 32768 THEN ((u[1] - 65536) * 65536) + u[2]
    ELSE (u[1] * 65536) + u[2]

\* the eight hexadecimal digits of u, most significant first
Nibbles(u) ==
    << u[1] \div 4096, (u[1] \div 256) % 16, (u[1] \div 16) % 16, u[1] % 16,
       u[2] \div 4096, (u[2] \div 256) % 16, (u[2] \div 16) % 16, u[2] % 16 >>

\* the digits without leading zeros; zero keeps one digit
RECURSIVE StripZeros(_)
StripZeros(ds) ==
    IF Len(ds) > 1 /\ ds[1] = 0 THEN StripZeros(Tail(ds)) ELSE ds

\* zeros in front until there are at least w digits
RECURSIVE PadZeros(_, _)
PadZeros(ds, w) ==
    IF Len(ds) < w THEN PadZeros(<<0>> \o ds, w) ELSE ds

\* mutant of FormatX: no zeros in front, as "%X" prints
FormatX_NoPad(u, w) ==
    LET ds == StripZeros(Nibbles(u))
    IN  [x \in 1..Len(ds) |-> HexChars[ds[x] + 1]]

\* printf("%0wX", u)
FormatX(u, w) ==
    LET ds == PadZeros(StripZeros(Nibbles(u)), w)
    IN  [x \in 1..Len(ds) |-> HexChars[ds[x] + 1]]

\* mutant of DumpLine: the newline after the digits is missing
DumpLine_NoNewline(v, w) ==
    IF w = 8 THEN FormatX(ToUint8(v), 2)
    ELSE FormatX(ToUint32(v), 8)

\* fprintf(fp, "%02X\n", (uint8_t)d[i]) and fprintf(fp, "%08X\n", (uint32_t)d[i])
DumpLine(v, w) ==
    IF w = 8 THEN FormatX(ToUint8(v), 2) \o <<"\n">>
    ELSE FormatX(ToUint32(v), 8) \o <<"\n">>

\* mutant of DumpText: every width other than 8 is written as width 32
RECURSIVE DumpText_ElseWide(_, _, _)
DumpText_ElseWide(buf, cnt, w) ==
    IF cnt = 0 THEN <<>>
    ELSE DumpText_ElseWide(buf, cnt - 1, w) \o DumpLine(buf[cnt - 1], w)

\* what the loop of dump_to_hex_file has written after cnt elements; a width
\* other than 8 and 32 writes nothing
RECURSIVE DumpText(_, _, _)
DumpText(buf, cnt, w) ==
    IF cnt = 0 \/ w \notin {8, 32} THEN <<>>
    ELSE DumpText(buf, cnt - 1, w) \o DumpLine(buf[cnt - 1], w)

\* the stream after the white space that %x skips
RECURSIVE SkipSpace(_)
SkipSpace(s) ==
    IF s # <<>> /\ IsSpace(s[1]) THEN SkipSpace(Tail(s)) ELSE s

\* the number of hexadecimal digits the stream starts with
RECURSIVE HexRun(_)
HexRun(s) ==
    IF s # <<>> /\ HexDigitValue(s[1]) >= 0 THEN 1 + HexRun(Tail(s)) ELSE 0

\* u * 16 + d, modulo 2^32
Shl4Add(u, d) ==
    LET low == (u[2] * 16) + d
    IN  <<((u[1] * 16) + (low \div 65536)) % 65536, low % 65536>>

\* the digits ds read as a number, modulo 2^32, after the digits that gave u
RECURSIVE ScanDigits(_, _)
ScanDigits(ds, u) ==
    IF ds = <<>> THEN u
    ELSE ScanDigits(Tail(ds), Shl4Add(u, HexDigitValue(ds[1])))

\* the number of digits of ds from its first digit that is not 0
RECURSIVE Significant(_)
Significant(ds) ==
    IF ds = <<>> THEN 0
    ELSE IF ds[1] = "0" THEN Significant(Tail(ds))
    ELSE Len(ds)

\* the unsigned int that %x stores for the digits ds: the number is
\* converted into an unsigned long, which saturates at 2^64 - 1 from 17
\* significant digits on, and is then cut to 32 bits
ScanValue(ds, u) ==
    IF Significant(ds) > 16 THEN <<65535, 65535>>
    ELSE ScanDigits(ds, u)

\* -u modulo 2^32
NegU32(u) ==
    IF u[2] = 0 THEN <<(65536 - u[1]) % 65536, 0>>
    ELSE <<65535 - u[1], 65536 - u[2]>>

\* fscanf(fp, "%x", &val) on the stream s: the value returned (1, 0 on a
\* character that starts no number, -1 at the end of the file), val and the
\* stream left.  A number is what strtoul takes in base 16: a sign, a prefix
\* 0x or 0X, then the digits.  A sign is read before the conversion fails; a
\* prefix that no digit follows is read as the number 0; a negative number
\* is negated as an unsigned long unless it saturated.
fscanf_x(s) ==
    LET t      == SkipSpace(s)
        signed == t # <<>> /\ t[1] \in {"+", "-"}
        body   == IF signed THEN Tail(t) ELSE t
        prefix == Len(body) >= 2 /\ body[1] = "0" /\ body[2] \in {"x", "X"}
        digits == IF prefix THEN SubSeq(body, 3, Len(body)) ELSE body
        cnt    == HexRun(digits)
        ds     == SubSeq(digits, 1, cnt)
        mag    == ScanValue(ds, <<0, 0>>)
    IN  IF t = <<>> THEN [n |-> -1, val |-> <<0, 0>>, rest |-> t]
        ELSE IF cnt = 0 /\ ~prefix THEN [n |-> 0, val |-> <<0, 0>>, rest |-> body]
        ELSE [n    |-> 1,
              val  |-> IF signed /\ t[1] = "-" /\ Significant(ds) <= 16
                       THEN NegU32(mag) ELSE mag,
              rest |-> SubSeq(digits, cnt + 1, Len(digits))]

\* mutant of LoadLoop: a token that does not parse is skipped
RECURSIVE LoadLoop_SkipBad(_, _, _, _, _)
LoadLoop_SkipBad(s, buf, count, l, w) ==
    LET r == fscanf_x(s)
    IN  IF count < l /\ r.n = 1
        THEN LoadLoop_SkipBad(r.rest,
                      [buf EXCEPT ![count] = IF w = 8 THEN ToInt8(r.val[2])
                                             ELSE ToInt32(r.val)],
                      count + 1, l, w)
        ELSE IF count < l /\ r.n = 0
        THEN LoadLoop_SkipBad(Tail(r.rest), buf, count, l, w)
        ELSE [buf |-> buf, count |-> count]

\* mutant of LoadLoop: an 8-bit read stops at a value above 0xFF
RECURSIVE LoadLoop_RejectWide(_, _, _, _, _)
LoadLoop_RejectWide(s, buf, count, l, w) ==
    LET r == fscanf_x(s)
    IN  IF /\ count < l
           /\ r.n = 1
           /\ (w = 8 => (r.val[1] = 0 /\ r.val[2] <= 255))
        THEN LoadLoop_RejectWide(r.rest,
                      [buf EXCEPT ![count] = IF w = 8 THEN ToInt8(r.val[2])
                                             ELSE ToInt32(r.val)],
                      count + 1, l, w)
        ELSE [buf |-> buf, count |-> count]

\* mutant of LoadLoop: the loop reads one value more than asked
RECURSIVE LoadLoop_OffByOne(_, _, _, _, _)
LoadLoop_OffByOne(s, buf, count, l, w) ==
    LET r == fscanf_x(s)
    IN  IF count <= l /\ r.n = 1
        THEN LoadLoop_OffByOne(r.rest,
                      [buf EXCEPT ![count] = IF w = 8 THEN ToInt8(r.val[2])
                                             ELSE ToInt32(r.val)],
                      count + 1, l, w)
        ELSE [buf |-> buf, count |-> count]

\* while (count < len && fscanf(fp, "%x", &val) == 1) d[count++] = (T)val;
RECURSIVE LoadLoop(_, _, _, _, _)
LoadLoop(s, buf, count, l, w) ==
    LET r == fscanf_x(s)
    IN  IF count < l /\ r.n = 1
        THEN LoadLoop(r.rest,
                      [buf EXCEPT ![count] = IF w = 8 THEN ToInt8(r.val[2])
                                             ELSE ToInt32(r.val)],
                      count + 1, l, w)
        ELSE [buf |-> buf, count |-> count]

(* Bounds of the model *)
MaxHexLen    == 2   \* the buffers given to the file functions have MaxHexLen elements
MaxFileChars == 5   \* a file found on the disk has up to MaxFileChars characters
MaxHexCalls  == 2   \* calls of the file functions in one run

Widths == {8, 16, 32}

\* element values, between them every hexadecimal digit and both ends of the range
Int8Samples  == <<-1, -128, 127, 0, 1, 35, 69, 103, -119, -85, -51, -17>>
Int32Samples == <<-1, INT32_MIN, INT32_MAX, 0, 19088743, -1985229329, 255, -256>>

SamplesOf(w) == IF w = 32 THEN Int32Samples ELSE Int8Samples

\* MaxHexLen elements, taken from the samples in a circle
SampleBuffer(samples, start) ==
    [x \in 0..(MaxHexLen - 1) |-> samples[((start + x) % Len(samples)) + 1]]

\* the buffers the caller dumps: int32_t elements for width 32, int8_t otherwise
Buffers(w) ==
    IF w \in {8, 32}
    THEN {SampleBuffer(SamplesOf(w), 2 * s) : s \in 0..((Len(SamplesOf(w)) \div 2) - 1)}
    ELSE {SampleBuffer(SamplesOf(w), 0)}

\* the buffer the caller loads into
DestBuffer(w) == SampleBuffer(SamplesOf(w), 1)

\* the files found on the disk: hexadecimal digits, newlines and a letter
\* that is no digit
FileAlphabet == {"0", "1", "F", "\n", "G"}
ShortFiles == UNION {[1..c -> FileAlphabet] : c \in 0..MaxFileChars}

\* cnt times the character c
Repeat(c, cnt) == [x \in 1..cnt |-> c]

\* files with what else %x reads as a number or skips: signs, the prefix 0x,
\* lower-case digits, the white space of isspace() and numbers of more
\* digits than an unsigned int or an unsigned long holds
NumberFiles ==
    { <<"-", "1">>,
      <<"-", "1", "\n", "F">>,
      <<"+", "7", "F", "\n", "8", "0">>,
      <<"0", "x", "1", "F", "\n", "1">>,
      <<"-", "0", "X", "f", "f", " ", "a">>,
      <<"1", "-", "2">>,
      <<"0", "x">>,
      <<"0", "x", "G", "\n", "1">>,
      <<"-", "\n", "1">>,
      <<"1", "+", "\n", "2">>,
      <<VT, "1", "F", VT, "0", "1", "\t", "\r", "\f">>,
      <<"1", "2", "3", "4", "5", "6", "7", "8", "9", "\n", "2">>,
      <<"1">> \o Repeat("0", 16),
      <<"1">> \o Repeat("0", 16) \o <<"\n", "1", "0", "0">>,
      Repeat("F", 16) \o <<"\n", "2">>,
      <<"-">> \o Repeat("F", 16),
      <<"-", "1">> \o Repeat("0", 16),
      Repeat("0", 16) \o <<"1", "F", "F">> }

Files == ShortFiles \cup NumberFiles
\* what the file to dump into may hold already
OldFiles == {<<>>, <<"1", "F", "\n">>}

InitHexOn(files) ==
    /\ pc = "idle"
    /\ calls = 0
    /\ file \in files
    /\ hex_data = <<>> /\ hex_len = 0 /\ width = 0
    /\ fopen_ok = FALSE /\ ret = <<>> /\ console = <<>>
    /\ hex_before = <<>> /\ file_before = file /\ dumped = <<>>
    /\ GemvIdle /\ GemmIdle /\ ObsIdle /\ MacIdle /\ LayerIdle /\ GenIdle
    /\ RecIdle

\* a writer and its reader
InitHex == InitHexOn(OldFiles)

\* a reader of a file that something else wrote
InitHexLoad == InitHexOn(Files)

\* a call dump_to_hex_file(filename, buf, l, w); ok is whether fopen succeeds
DumpToHexFile ==
    /\ pc \in {"idle", "dump_done", "load_done"}
    /\ calls < MaxHexCalls
    /\ calls' = calls + 1
    /\ \E w \in Widths, ok \in BOOLEAN :
         \E buf \in Buffers(w), l \in 0..MaxHexLen :
            /\ width' = w /\ hex_len' = l /\ fopen_ok' = ok
            /\ hex_before' = buf /\ hex_data' = buf
            /\ file_before' = file
            /\ IF ok
               THEN /\ file' = DumpText(buf, l, w)
                    /\ console' = <<<<"Dumped", l>>>>
                    /\ dumped' = <<buf, l, w>>
               ELSE /\ file' = file
                    /\ console' = <<<<"Error: Cannot open file">>>>
                    /\ dumped' = dumped
    /\ ret' = <<>>
    /\ pc' = "dump_done"
    /\ UNCHANGED <<gemvVars, gemmVars, obsVars, macVars, layer, genVars, recVars>>

\* mutant of LoadFromHexFile: a file that cannot be opened reads as an empty file
LoadFromHexFile_ZeroOnError ==
    /\ pc \in {"idle", "dump_done"}
    /\ calls < MaxHexCalls
    /\ calls' = calls + 1
    /\ \E w \in Widths, ok \in BOOLEAN :
         \E buf \in {DestBuffer(w)}, l \in 0..MaxHexLen :
            /\ width' = w /\ hex_len' = l /\ fopen_ok' = ok
            /\ hex_before' = buf
            /\ file_before' = file
            /\ IF ok
               THEN LET r == IF w \in {8, 32} THEN LoadLoop(file, buf, 0, l, w)
                             ELSE [buf |-> buf, count |-> 0]
                    IN  /\ hex_data' = r.buf
                        /\ ret' = <<r.count>>
                        /\ console' = <<>>
               ELSE /\ hex_data' = buf
                    /\ ret' = <<0>>
                    /\ console' = <<<<"Error: Cannot open file">>>>
    /\ pc' = "load_done"
    /\ UNCHANGED <<file, dumped>>
    /\ UNCHANGED <<gemvVars, gemmVars, obsVars, macVars, layer, genVars, recVars>>

\* a call load_from_hex_file(filename, buf, l, w); ok is whether fopen succeeds.
\* A load leaves the file as it is, so a load that follows a load finds what
\* the first one found: the model takes a load at the start or after a dump.
LoadFromHexFile ==
    /\ pc \in {"idle", "dump_done"}
    /\ calls < MaxHexCalls
    /\ calls' = calls + 1
    /\ \E w \in Widths, ok \in BOOLEAN :
         \E buf \in {DestBuffer(w)}, l \in 0..MaxHexLen :
            /\ width' = w /\ hex_len' = l /\ fopen_ok' = ok
            /\ hex_before' = buf
            /\ file_before' = file
            /\ IF ok
               THEN LET r == IF w \in {8, 32} THEN LoadLoop(file, buf, 0, l, w)
                             ELSE [buf |-> buf, count |-> 0]
                    IN  /\ hex_data' = r.buf
                        /\ ret' = <<r.count>>
                        /\ console' = <<>>
               ELSE /\ hex_data' = buf
                    /\ ret' = <<-1>>
                    /\ console' = <<<<"Error: Cannot open file">>>>
    /\ pc' = "load_done"
    /\ UNCHANGED <<file, dumped>>
    /\ UNCHANGED <<gemvVars, gemmVars, obsVars, macVars, layer, genVars, recVars>>

NextHex ==
    \/ DumpToHexFile
    \/ LoadFromHexFile

SpecHex == InitHex /\ [][NextHex]_vars

NextHexLoad == LoadFromHexFile

SpecHexLoad == InitHexLoad /\ [][NextHexLoad]_vars

----------------------------------------------------------------------------
(* The MAC operation recorder: mac_add_op *)

MAC_TEST_MAX_OPS == 512

(* Bounds of the model *)
MaxMacOps == 4      \* calls of mac_add_op in one run

\* the operand pairs <<input, weight>> of the recorded operations
MacOperands == {<<3, 5>>, <<-128, -128>>, <<127, -128>>}

\* the recorder after cnt calls mac_add_op(j % 8 == 0, 1, 1), j = 0..cnt-1:
\* groups of eight ones, each opened by a clear; the calls made when the
\* recorder is full are refused and leave it as it is
RecordedOnes(cnt) ==
    LET kept == IF cnt < MAC_TEST_MAX_OPS THEN cnt ELSE MAC_TEST_MAX_OPS
    IN  [count    |-> kept,
         acc      |-> IF kept = 0 THEN 0 ELSE ((kept - 1) % 8) + 1,
         clears   |-> [j \in 0..(MAC_TEST_MAX_OPS - 1) |->
                          IF j < kept /\ j % 8 = 0 THEN 1 ELSE 0],
         inputs   |-> [j \in 0..(MAC_TEST_MAX_OPS - 1) |-> IF j < kept THEN 1 ELSE 0],
         weights  |-> [j \in 0..(MAC_TEST_MAX_OPS - 1) |-> IF j < kept THEN 1 ELSE 0],
         expected |-> [j \in 0..(MAC_TEST_MAX_OPS - 1) |->
                          IF j < kept THEN (j % 8) + 1 ELSE 0]]

\* the recorder is empty, as generate_mac_test_hex resets it, or two
\* operations short of full
InitRec ==
    /\ pc = "idle"
    /\ calls = 0
    /\ \E st \in {RecordedOnes(0), RecordedOnes(MAC_TEST_MAX_OPS - 2)} :
          /\ mac_op_count = st.count
          /\ mac_acc = st.acc
          /\ mac_clears = st.clears
          /\ mac_inputs = st.inputs
          /\ mac_weights = st.weights
          /\ mac_expected = st.expected
    /\ GemvIdle /\ GemmIdle /\ ObsIdle /\ MacIdle /\ LayerIdle /\ GenIdle
    /\ HexIdle

\* mutant of MacAccNext: clear is ignored
MacAccNext_NoClear(clear, inp, wt, a) == AddI32(a, inp * wt)

\* if (clear) mac_acc = 0; product = input * weight; mac_acc += product:
\* the values mac_acc may hold then
MacAccNext(clear, inp, wt, a) == AddI32(IF clear # 0 THEN 0 ELSE a, inp * wt)

\* mutant of MacAddOp: clear is applied before the capacity check
MacAddOp_ClearFirst ==
    /\ calls < MaxMacOps
    /\ calls' = calls + 1
    /\ pc' = "mac_add_op_done"
    /\ \E clear \in {0, 1}, op \in MacOperands :
         IF mac_op_count >= MAC_TEST_MAX_OPS
         THEN /\ console' = Append(console, <<"ERROR: MAC test ops overflow!">>)
              /\ mac_acc' = IF clear # 0 THEN 0 ELSE mac_acc
              /\ UNCHANGED <<mac_op_count, mac_inputs, mac_weights, mac_clears,
                             mac_expected>>
         ELSE /\ mac_acc' \in MacAccNext(clear, op[1], op[2], mac_acc)
              /\ mac_clears' = [mac_clears EXCEPT ![mac_op_count] = clear % 256]
              /\ mac_inputs' = [mac_inputs EXCEPT ![mac_op_count] = op[1]]
              /\ mac_weights' = [mac_weights EXCEPT ![mac_op_count] = op[2]]
              /\ mac_expected' = [mac_expected EXCEPT ![mac_op_count] = mac_acc']
              /\ mac_op_count' = mac_op_count + 1
              /\ UNCHANGED console
    /\ UNCHANGED <<file, hex_data, hex_len, width, fopen_ok, ret,
                   hex_before, file_before, dumped>>
    /\ UNCHANGED <<gemvVars, gemmVars, obsVars, macVars, layer, genVars>>

\* a call mac_add_op(clear, input, weight)
MacAddOp ==
    /\ calls < MaxMacOps
    /\ calls' = calls + 1
    /\ pc' = "mac_add_op_done"
    /\ \E clear \in {0, 1}, op \in MacOperands :
         IF mac_op_count >= MAC_TEST_MAX_OPS
         THEN /\ console' = Append(console, <<"ERROR: MAC test ops overflow!">>)
              /\ UNCHANGED recVars
         ELSE /\ mac_acc' \in MacAccNext(clear, op[1], op[2], mac_acc)
              /\ mac_clears' = [mac_clears EXCEPT ![mac_op_count] = clear % 256]
              /\ mac_inputs' = [mac_inputs EXCEPT ![mac_op_count] = op[1]]
              /\ mac_weights' = [mac_weights EXCEPT ![mac_op_count] = op[2]]
              /\ mac_expected' = [mac_expected EXCEPT ![mac_op_count] = mac_acc']
              /\ mac_op_count' = mac_op_count + 1
              /\ UNCHANGED console
    /\ UNCHANGED <<file, hex_data, hex_len, width, fopen_ok, ret,
                   hex_before, file_before, dumped>>
    /\ UNCHANGED <<gemvVars, gemmVars, obsVars, macVars, layer, genVars>>

NextRec == MacAddOp

SpecRec == InitRec /\ [][NextRec]_vars

----------------------------------------------------------------------------
(* Properties of the tiled multiplies *)

GemvRunning == pc \in {"gemv_o_tile", "gemv_i_tile", "gemv_o", "gemv_i", "gemv_done"}
GemmRunning == pc \in {"gemm_m_tile", "gemm_k_tile", "gemm_n", "gemm_m", "gemm_k",
                       "gemm_done"}

\* the layer ref_gemv is given to cross-check ref_gemv_tiled: same buffers,
\* all-zero bias
GemvDirectLayer ==
    [input_dim |-> input_dim, output_dim |-> output_dim,
     weights |-> weights, input |-> input,
     output |-> Zeros(output_dim), bias |-> Zeros(output_dim)]

GemmDirectLayer ==
    [M |-> M, K |-> K, N |-> N, A |-> A, B |-> B, C |-> Zeros(M * N)]

\* C1: when ref_gemv_tiled returns, output equals, element by element, what
\* ref_gemv computes from the same input and weights with an all-zero bias,
\* for every output_dim and input_dim, multiples of the tile geometry or not.
C1_GemvTiledEqualsDirect ==
    pc = "gemv_done" => output = ref_gemv(GemvDirectLayer).output

\* a run over a ragged row tile and a ragged reduction tile has returned
C1_Witness ==
    /\ pc = "gemv_done"
    /\ output_dim = SUBARRAY_ROWS + 1
    /\ input_dim = 2 * SUBARRAY_COLS + 1
    /\ output[SUBARRAY_ROWS] # 0

\* C2: when ref_gemm_tiled returns, C equals, element by element, the C that
\* ref_gemm computes from the same A and B.
C2_GemmTiledEqualsDirect ==
    pc = "gemm_done" => C = ref_gemm(GemmDirectLayer).C

C2_Witness ==
    /\ pc = "gemm_done"
    /\ M = SUBARRAY_ROWS + 1
    /\ K = SUBARRAY_COLS + 1
    /\ N = 2
    /\ C[SUBARRAY_ROWS * N + 1] # 0

\* the number of tiles of size tile that cover 0..dim-1
NumTiles(dim, tile) == (dim + tile - 1) \div tile

\* the tiles <<row start, column start>> of a rows x cols index space, row
\* tiles ascending and, for each row tile, reduction tiles ascending
ExpectedTiles(rows, cols) ==
    LET nr == NumTiles(rows, SUBARRAY_ROWS)
        nc == NumTiles(cols, SUBARRAY_COLS)
    IN  [j \in 1..(nr * nc) |->
            <<((j - 1) \div nc) * SUBARRAY_ROWS, ((j - 1) % nc) * SUBARRAY_COLS>>]

IsPrefix(s, t) ==
    /\ Len(s) <= Len(t)
    /\ \A j \in 1..Len(s) : s[j] = t[j]

\* the start of the tile of size tile that holds index x
TileStart(x, tile) == (x \div tile) * tile

\* the index pair <<row, col>> lies in a tile that precedes tile t in the order
\* of ExpectedTiles
InEarlierTile(row, col, t) ==
    \/ TileStart(row, SUBARRAY_ROWS) < t[1]
    \/ /\ TileStart(row, SUBARRAY_ROWS) = t[1]
       /\ TileStart(col, SUBARRAY_COLS) < t[2]

\* C4: in one run of ref_gemv_tiled every index pair (o, i) with o < output_dim
\* and i < input_dim is accumulated exactly once and no other pair is ever
\* accumulated: the last tile of each dimension is clipped, not padded, not
\* skipped.
C4_GemvEachPairOnce ==
    GemvRunning =>
        /\ last_mac # <<>> =>
              /\ last_mac[1] \in 0..(output_dim - 1)
              /\ last_mac[2] \in 0..(input_dim - 1)
              /\ touched[last_mac] = 1
        /\ pc = "gemv_done" =>
              /\ DOMAIN touched = (0..(output_dim - 1)) \X (0..(input_dim - 1))
              /\ \A p \in DOMAIN touched : touched[p] = 1

\* a run with ragged last tiles has returned, its last pair accumulated
C4_Witness ==
    /\ pc = "gemv_done"
    /\ output_dim = SUBARRAY_ROWS + 1
    /\ input_dim = SUBARRAY_COLS + 1
    /\ last_mac = <<SUBARRAY_ROWS, SUBARRAY_COLS>>

\* C5: ref_gemv_tiled enters the tiles in the order of ExpectedTiles: row tiles
\* by ascending start in steps of tile_rows and, for each row tile, reduction
\* tiles by ascending start in steps of tile_cols.  No accumulation is into a
\* tile later than the one entered last, and when a tile is entered exactly
\* the pairs of the earlier tiles have been accumulated, so no row of a later
\* row tile is accumulated before the reduction tiles of the current one are
\* finished.
C5_GemvTileOrder ==
    GemvRunning =>
        /\ IsPrefix(tile_log, ExpectedTiles(output_dim, input_dim))
        /\ pc = "gemv_done" => tile_log = ExpectedTiles(output_dim, input_dim)
        /\ last_mac # <<>> =>
              /\ tile_log # <<>>
              /\ LET t == tile_log[Len(tile_log)]
                 IN  ~InEarlierTile(t[1], t[2],
                         <<TileStart(last_mac[1], SUBARRAY_ROWS),
                           TileStart(last_mac[2], SUBARRAY_COLS)>>)
        /\ (pc = "gemv_o" /\ o = o_tile) =>
              DOMAIN touched =
                 {p \in (0..(output_dim - 1)) \X (0..(input_dim - 1)) :
                     InEarlierTile(p[1], p[2], <<o_tile, i_tile>>)}

\* the third reduction tile of the second row tile has just been entered
C5_Witness ==
    /\ pc = "gemv_o"
    /\ o = o_tile
    /\ o_tile = SUBARRAY_ROWS
    /\ i_tile = 2 * SUBARRAY_COLS
    /\ Len(tile_log) = 6

\* the position, counted from 1, of the accumulation <<row, col, kk>> in the
\* order: M-tiles, then K-tiles, then every column, then the rows of the
\* M-tile, then the k of the K-tile
GemmRank(row, col, kk) ==
    LET mt == TileStart(row, SUBARRAY_ROWS)
        kt == TileStart(kk, SUBARRAY_COLS)
        h  == TileEnd(mt, SUBARRAY_ROWS, M) - mt
        w  == TileEnd(kt, SUBARRAY_COLS, K) - kt
    IN  mt * K * N + h * kt * N + col * h * w + (row - mt) * w + (kk - kt) + 1

\* C6: ref_gemm_tiled accumulates in the order M-tiles, K-tiles, every column
\* n in 0..N-1, rows m of the M-tile, k of the K-tile: the t-th accumulation
\* of a run is the index tuple at position t of that order.  N is not tiled:
\* when a K-tile is entered, all N columns of every earlier (M-tile, K-tile)
\* pair have been accumulated.
C6_GemmOrder ==
    GemmRunning =>
        /\ IsPrefix(tile_log, ExpectedTiles(M, K))
        /\ pc = "gemm_done" => tile_log = ExpectedTiles(M, K)
        /\ last_mac # <<>> =>
              /\ last_mac[1] \in 0..(M - 1)
              /\ last_mac[2] \in 0..(N - 1)
              /\ last_mac[3] \in 0..(K - 1)
              /\ touched[last_mac] = 1
              /\ BagCardinality(touched)
                    = GemmRank(last_mac[1], last_mac[2], last_mac[3])
        /\ (pc = "gemm_n" /\ n = 0) =>
              DOMAIN touched =
                 {p \in (0..(M - 1)) \X (0..(N - 1)) \X (0..(K - 1)) :
                     InEarlierTile(p[1], p[3], <<m_tile, k_tile>>)}
        /\ pc = "gemm_done" => BagCardinality(touched) = M * K * N

\* the second K-tile of the second M-tile is in progress, in its second column
C6_Witness ==
    /\ pc = "gemm_k"
    /\ m_tile = SUBARRAY_ROWS
    /\ k_tile = SUBARRAY_COLS
    /\ n = 1
    /\ last_mac = <<SUBARRAY_ROWS, 1, SUBARRAY_COLS>>

\* C8: the result of a tiled multiply does not depend on what the output
\* buffer held before: the buffer is all zero until the first accumulation
\* of a call, and a second call on the same inputs leaves the output the
\* first call left.
C8_OutputZeroedFirst ==
    /\ (GemvRunning /\ touched = EmptyBag) => output = Zeros(output_dim)
    /\ (GemmRunning /\ touched = EmptyBag) => C = Zeros(M * N)
    /\ (pc = "gemv_done" /\ calls >= 2) => output = prev_output
    /\ (pc = "gemm_done" /\ calls >= 2) => C = prev_output

\* a second call of ref_gemm_tiled has returned a result that is not zero
C8_Witness ==
    /\ pc = "gemm_done"
    /\ calls = 2
    /\ M > SUBARRAY_ROWS
    /\ N > 0
    /\ C[M * N - 1] # 0
    /\ C = prev_output

----------------------------------------------------------------------------
(* Properties of ref_mac and ref_gemv *)

\* C3: whenever acc + input * weight stays in the 32-bit range, ref_mac leaves
\* acc equal to its previous value plus input * weight; from acc = 0 the
\* operands (127, 127) give 16129, (-128, -128) give 16384 and (127, -128)
\* give -16256; a zero operand leaves acc as it was.
C3_MacAddsProduct ==
    pc = "mac_done" =>
        /\ ~AddOverflows(acc_before, mac_input * mac_weight) =>
              acc = acc_before + mac_input * mac_weight
        /\ (acc_before = 0 /\ mac_input = 127 /\ mac_weight = 127) => acc = 16129
        /\ (acc_before = 0 /\ mac_input = -128 /\ mac_weight = -128) => acc = 16384
        /\ (acc_before = 0 /\ mac_input = 127 /\ mac_weight = -128) => acc = -16256
        /\ (mac_input = 0 \/ mac_weight = 0) => acc = acc_before

\* the second of two calls with (-128, -128) has returned, starting from 0
C3_Witness ==
    /\ pc = "mac_done"
    /\ calls = 2
    /\ mac_input = -128
    /\ mac_weight = -128
    /\ acc_before = 16384
    /\ acc = 32768

\* the sum of weights[row * K + j] * input[j] over j = from .. K-1, as an
\* integer
RECURSIVE DotFrom(_, _, _)
DotFrom(L, row, from) ==
    IF from >= L.input_dim THEN 0
    ELSE L.weights[row * L.input_dim + from] * L.input[from]
            + DotFrom(L, row, from + 1)

AllOnes(buf) == \A x \in DOMAIN buf : buf[x] = 1

\* C7: ref_gemv sets output[m], for every row m, to bias[m] plus the sum over
\* k in 0..K-1 of weights[m * K + k] * input[k]; with an all-zero bias that is
\* the dot product, and with bias[r] = 10 * r and all-ones data of length 8 it
\* is 8 + 10 * r.
C7_GemvIsBiasPlusDot ==
    pc = "gemv_direct_done" =>
        \A row \in 0..(layer.output_dim - 1) :
            /\ layer.output[row] = layer.bias[row] + DotFrom(layer, row, 0)
            /\ layer.bias = Zeros(layer.output_dim) =>
                  layer.output[row] = DotFrom(layer, row, 0)
            /\ (/\ layer.input_dim = 8
                /\ AllOnes(layer.input)
                /\ AllOnes(layer.weights)
                /\ layer.bias[row] = 10 * row) =>
                  layer.output[row] = 8 + 10 * row

\* the 32 x 8 all-ones layer with bias 10 * r has been computed
C7_Witness ==
    /\ pc = "gemv_direct_done"
    /\ layer.input_dim = SUBARRAY_COLS
    /\ layer.output_dim = SUBARRAY_ROWS
    /\ AllOnes(layer.input)
    /\ AllOnes(layer.weights)
    /\ layer.bias[31] = 310
    /\ layer.output[31] = 318

----------------------------------------------------------------------------
(* Properties of generate_random_i8 *)

\* C9: a call of generate_random_i8 with a given (len, seed) generates what
\* the first call with that (len, seed) generated, whatever calls were made
\* in between and before.
C9_SameSeedSameSequence ==
    pc = "gen_done" => Generated = gen_hist[<<len, seed>>]

\* a (len, seed) is generated again after a call with another seed
C9_Witness ==
    /\ pc = "gen_done"
    /\ calls = 3
    /\ len = MaxLen
    /\ seed = 1
    /\ Cardinality(DOMAIN gen_hist) = 2
    /\ <<2, 42>> \in DOMAIN gen_hist

\* C10: generate_random_i8 draws exactly len values after reseeding and
\* writes exactly data[0..len): element i is (i-th draw mod 256) - 128, which
\* lies in -128..127, and the elements from len on are as they were.
C10_GeneratesLenValues ==
    pc = "gen_done" =>
        /\ Len(draws) = len
        /\ \A x \in 0..(len - 1) :
              /\ data[x] = (draws[x + 1] % 256) - 128
              /\ data[x] \in -128..127
        /\ \A x \in len..(DataCap - 1) : data[x] = data_before[x]

\* a shorter call has returned on a buffer that an earlier call had filled
C10_Witness ==
    /\ pc = "gen_done"
    /\ calls = 2
    /\ len = 1
    /\ seed = 42
    /\ data[0] # data_before[0]
    /\ data[2] # 0
    /\ data[2] = data_before[2]

\* C11: the generator state that generate_random_i8 uses is local to the call:
\* when the call has returned, the generator outside the call is in the state
\* it was in when the call was made.
C11_GeneratorStateLocal ==
    pc = "gen_done" => rand_state = rand_before

----------------------------------------------------------------------------
(* Properties of the hex file functions *)

DumpDone == pc = "dump_done" /\ fopen_ok
LoadDone == pc = "load_done" /\ fopen_ok

\* the two's-complement bit pattern of v in `digits' hexadecimal digits,
\* most significant first (digits is 2 or 8)
PatternNibble(v, digits, j) ==
    LET nonneg == IF v >= 0 THEN v
                  ELSE IF digits = 2 THEN v + 256
                  ELSE v - INT32_MIN
        shifted == nonneg \div (16 ^ (digits - j))
    IN  (shifted % 16) + (IF digits = 8 /\ v < 0 /\ j = 1 THEN 8 ELSE 0)

UpperHexDigit(d) ==
    CASE d = 0 -> "0" [] d = 1 -> "1" [] d = 2 -> "2" [] d = 3 -> "3"
      [] d = 4 -> "4" [] d = 5 -> "5" [] d = 6 -> "6" [] d = 7 -> "7"
      [] d = 8 -> "8" [] d = 9 -> "9" [] d = 10 -> "A" [] d = 11 -> "B"
      [] d = 12 -> "C" [] d = 13 -> "D" [] d = 14 -> "E" [] d = 15 -> "F"

\* C12: a dump of width 8 (32) that opened its file wrote exactly len lines,
\* in the order of the buffer; line x is the 2 (8) upper-case hexadecimal
\* digits of the two's-complement pattern of data[x], zero padded, and a
\* newline; -1 is written as FF (FFFFFFFF).
C12_DumpFormat ==
    (DumpDone /\ width \in {8, 32}) =>
        LET digits == width \div 4
            line   == digits + 1
        IN  /\ Len(file) = hex_len * line
            /\ \A x \in 0..(hex_len - 1) :
                  /\ file[(x * line) + line] = "\n"
                  /\ \A j \in 1..digits :
                        file[(x * line) + j] =
                            UpperHexDigit(PatternNibble(hex_before[x], digits, j))
                  /\ hex_before[x] = -1 =>
                        \A j \in 1..digits : file[(x * line) + j] = "F"

\* a 32-bit dump of -1 and the most negative value over an older file
C12_Witness ==
    /\ DumpDone
    /\ width = 32
    /\ hex_len = 2
    /\ hex_before[0] = -1
    /\ hex_before[1] = INT32_MIN
    /\ file_before # <<>>
    /\ file = << "F", "F", "F", "F", "F", "F", "F", "F", "\n",
                 "8", "0", "0", "0", "0", "0", "0", "0", "\n" >>

\* C13: a load that follows a dump of the same file with the same length and
\* width returns that length and fills the buffer with the values dumped.
C13_DumpLoadRoundTrip ==
    (/\ LoadDone
     /\ dumped # <<>>
     /\ width \in {8, 32}
     /\ hex_len = dumped[2]
     /\ width = dumped[3]) =>
        /\ ret = <<hex_len>>
        /\ \A x \in 0..(hex_len - 1) : hex_data[x] = dumped[1][x]

\* two 8-bit values with the sign bit set came back into a buffer that held others
C13_Witness ==
    /\ LoadDone
    /\ dumped # <<>>
    /\ width = 8 /\ dumped[3] = 8
    /\ hex_len = 2 /\ dumped[2] = 2
    /\ dumped[1][0] = -119 /\ dumped[1][1] = -85
    /\ hex_before[0] # -119 /\ hex_before[1] # -85
    /\ hex_data[0] = -119 /\ hex_data[1] = -85

\* the number of characters before the first white space
RECURSIVE NonSpaceRun(_)
NonSpaceRun(s) ==
    IF s # <<>> /\ ~IsSpace(s[1]) THEN 1 + NonSpaceRun(Tail(s)) ELSE 0

\* the tokens of a file: its maximal runs of characters that are not white space
RECURSIVE Tokens(_)
Tokens(s) ==
    IF s = <<>> THEN <<>>
    ELSE IF IsSpace(s[1]) THEN Tokens(Tail(s))
    ELSE LET c == NonSpaceRun(s)
         IN  <<SubSeq(s, 1, c)>> \o Tokens(SubSeq(s, c + 1, Len(s)))

\* a well-formed hexadecimal token: hexadecimal digits only
WellFormed(tok) == \A x \in 1..Len(tok) : HexDigitValue(tok[x]) >= 0

\* the number of well-formed tokens before the first malformed one
RECURSIVE LeadingWellFormed(_)
LeadingWellFormed(toks) ==
    IF toks # <<>> /\ WellFormed(toks[1])
    THEN 1 + LeadingWellFormed(Tail(toks))
    ELSE 0

\* the number that up to seven digits denote
RECURSIVE TokenValue(_)
TokenValue(tok) ==
    IF tok = <<>> THEN 0
    ELSE (TokenValue(SubSeq(tok, 1, Len(tok) - 1)) * 16)
         + HexDigitValue(tok[Len(tok)])

MinOf(a, b) == IF a < b THEN a ELSE b
MaxOf(a, b) == IF a > b THEN a ELSE b

\* the low 32 bits of the number the digits ds denote, as two halves: the
\* value of the last four digits, and of the four before them
LowBits(ds) ==
    LET l == Len(ds)
    IN  <<TokenValue(SubSeq(ds, MaxOf(1, l - 7), l - 4)),
          TokenValue(SubSeq(ds, MaxOf(1, l - 3), l))>>

\* the element a token of hexadecimal digits is stored as: its low bits
Stored(tok, w) ==
    IF w = 8 THEN ToInt8(LowBits(tok)[2] % 256) ELSE ToInt32(LowBits(tok))

\* C14: a load of width 8 or 32 that opened its file returns
\* min(len, number of leading well-formed tokens of the file), has written
\* those tokens to data[0..count) in file order, and has left data[count..)
\* as it was.
C14_LoadCountIsLeadingTokens ==
    (LoadDone /\ width \in {8, 32}) =>
        LET toks  == Tokens(file)
            count == MinOf(hex_len, LeadingWellFormed(toks))
        IN  /\ ret = <<count>>
            /\ \A x \in 0..(count - 1) : hex_data[x] = Stored(toks[x + 1], width)
            /\ \A x \in count..(MaxHexLen - 1) : hex_data[x] = hex_before[x]

\* the number of zeros the digits start with
RECURSIVE ZeroRun(_)
ZeroRun(ds) ==
    IF ds # <<>> /\ ds[1] = "0" THEN 1 + ZeroRun(Tail(ds)) ELSE 0

\* the number of hexadecimal digits tok starts with
RECURSIVE DigitRun(_)
DigitRun(tok) ==
    IF tok # <<>> /\ WellFormed(<<tok[1]>>) THEN 1 + DigitRun(Tail(tok)) ELSE 0

\* the numbers a token is made of, one after the other from its start: a
\* number is an optional sign, an optional prefix 0x or 0X and hexadecimal
\* digits, at least one unless there is a prefix; whole says that the token
\* holds nothing else
RECURSIVE NumbersOf(_)
NumbersOf(tok) ==
    IF tok = <<>> THEN [nums |-> <<>>, whole |-> TRUE]
    ELSE LET sgn  == IF tok[1] \in {"+", "-"} THEN 1 ELSE 0
             pre  == IF /\ Len(tok) >= sgn + 2
                        /\ tok[sgn + 1] = "0"
                        /\ tok[sgn + 2] \in {"x", "X"}
                     THEN 2 ELSE 0
             from == sgn + pre + 1
             cnt  == DigitRun(SubSeq(tok, from, Len(tok)))
         IN  IF cnt = 0 /\ pre = 0 THEN [nums |-> <<>>, whole |-> FALSE]
             ELSE LET more == NumbersOf(SubSeq(tok, from + cnt, Len(tok)))
                      num  == [neg |-> tok[1] = "-",
                               ds  |-> SubSeq(tok, from, from + cnt - 1)]
                  IN  [nums |-> <<num>> \o more.nums, whole |-> more.whole]

\* a token the read goes through: it is made of numbers only
Numeric(tok) == NumbersOf(tok).whole

\* the numbers the file yields: those of its tokens up to and including the
\* first token that is not made of numbers only
RECURSIVE Yield(_)
Yield(toks) ==
    IF toks = <<>> THEN <<>>
    ELSE IF Numeric(toks[1]) THEN NumbersOf(toks[1]).nums \o Yield(Tail(toks))
    ELSE NumbersOf(toks[1]).nums

\* num has more significant digits than an unsigned long holds
Saturated(num) == Len(num.ds) - ZeroRun(num.ds) > 16

\* the element a number is stored as: -1 when it has more than 16
\* significant digits, else its low bits, negated when it has a minus sign
StoredNumber(num, w) ==
    IF Saturated(num) THEN -1
    ELSE IF w = 8
    THEN LET b == LowBits(num.ds)[2] % 256
         IN  ToInt8(IF num.neg THEN -b ELSE b)
    ELSE LET v == ToInt32(LowBits(num.ds))
         IN  IF num.neg /\ v # INT32_MIN THEN -v ELSE v

\* C14, amended: a load of width 8 or 32 that opened its file returns
\* min(len, number of numbers the file yields).  The file is read token by
\* token; a token yields the numbers it is made of, each an optional sign,
\* an optional prefix 0x and hexadecimal digits, and the read ends in the
\* first token that holds something else, after the numbers that token
\* starts with.  The load has written those numbers to data[0..count) in
\* file order, each as its low bits, negated if it has a minus sign, or as
\* -1 if it has more than 16 significant digits, and has left
\* data[count..) as it was.
C14_LoadCountIsLeadingValues ==
    (LoadDone /\ width \in {8, 32}) =>
        LET vals  == Yield(Tokens(file))
            count == MinOf(hex_len, Len(vals))
        IN  /\ ret = <<count>>
            /\ \A x \in 0..(count - 1) :
                  hex_data[x] = StoredNumber(vals[x + 1], width)
            /\ \A x \in count..(MaxHexLen - 1) : hex_data[x] = hex_before[x]

\* the file FF, 1G was read: the digit before the G came out as a value
C14_Witness ==
    /\ LoadDone
    /\ width = 8
    /\ hex_len = 2
    /\ file = <<"F", "F", "\n", "1", "G">>
    /\ ret = <<2>>
    /\ hex_data[0] = -1
    /\ hex_data[1] = 1

\* C15: when the file holds a malformed token, one that is not made of
\* hexadecimal digits only, the load does not fail: it returns a count
\* that is not negative, the values of the tokens before the malformed one
\* are in the buffer, and reading stops at that token, nothing of a token
\* after it is read: the count is at most the number of tokens before it
\* plus the numbers that token starts with, and the buffer is unchanged from
\* there on.
C15_MalformedTokenStopsRead ==
    LET toks == Tokens(file)
        good == LeadingWellFormed(toks)
    IN  (LoadDone /\ width \in {8, 32} /\ good < Len(toks)) =>
            LET upto == good + Len(NumbersOf(toks[good + 1]).nums)
            IN  /\ ret[1] >= MinOf(hex_len, good)
                /\ ret[1] <= MinOf(hex_len, upto)
                /\ \A x \in 0..(MinOf(hex_len, good) - 1) :
                      hex_data[x] = Stored(toks[x + 1], width)
                /\ \A x \in ret[1]..(MaxHexLen - 1) : hex_data[x] = hex_before[x]
                /\ \A x \in upto..(MaxHexLen - 1) : hex_data[x] = hex_before[x]

\* the index of the first token that is not made of numbers only, 0 if
\* there is none
FirstMalformed(toks) ==
    IF \E x \in 1..Len(toks) : ~Numeric(toks[x])
    THEN CHOOSE x \in 1..Len(toks) :
            /\ ~Numeric(toks[x])
            /\ \A y \in 1..(x - 1) : Numeric(toks[y])
    ELSE 0

\* C15, amended: a token is malformed when it is not made of numbers only,
\* a number being an optional sign, an optional prefix 0x and hexadecimal
\* digits; a token such as -1 or 0x1F is read as a number and the read goes
\* on after it.  When the file holds a malformed token the load does not
\* fail: it returns a count that is not negative, the numbers of the tokens
\* before the malformed one are in the buffer, and nothing of a token after
\* the malformed one has been read: the count is at most the number of
\* numbers before that token plus those the token starts with, and the
\* buffer is unchanged from there on.
C15_UnreadableTokenStopsRead ==
    LET toks == Tokens(file)
        bad  == FirstMalformed(toks)
    IN  (LoadDone /\ width \in {8, 32} /\ bad > 0) =>
            LET before == Yield(SubSeq(toks, 1, bad - 1))
                upto   == Len(before) + Len(NumbersOf(toks[bad]).nums)
            IN  /\ ret[1] >= MinOf(hex_len, Len(before))
                /\ ret[1] <= MinOf(hex_len, upto)
                /\ \A x \in 0..(MinOf(hex_len, Len(before)) - 1) :
                      hex_data[x] = StoredNumber(before[x + 1], width)
                /\ \A x \in ret[1]..(MaxHexLen - 1) : hex_data[x] = hex_before[x]
                /\ \A x \in upto..(MaxHexLen - 1) : hex_data[x] = hex_before[x]

\* the file 1, G, F was read into a buffer with room for two values
C15_Witness ==
    /\ LoadDone
    /\ width = 8
    /\ hex_len = 2
    /\ file = <<"1", "\n", "G", "\n", "F">>
    /\ ret = <<1>>
    /\ hex_data[0] = 1
    /\ hex_data[1] = hex_before[1]
    /\ hex_before[1] # 15

\* C16: a dump that cannot open its file writes nothing and reports the
\* failure to its caller: the caller is given an error value.
C16_DumpFailureReported ==
    (pc = "dump_done" /\ ~fopen_ok) =>
        /\ file = file_before
        /\ ret # <<>>

\* C17: a load that cannot open its file returns -1 and leaves the whole
\* buffer as it was.
C17_LoadOpenFailure ==
    (pc = "load_done" /\ ~fopen_ok) =>
        /\ ret = <<-1>>
        /\ hex_data = hex_before

\* the file held two values and the call asked for both
C17_Witness ==
    /\ pc = "load_done"
    /\ ~fopen_ok
    /\ file = <<"1", "\n", "F", "F", "\n">>
    /\ width = 8
    /\ hex_len = 2
    /\ ret = <<-1>>
    /\ hex_data = DestBuffer(8)

----------------------------------------------------------------------------
(* Properties of the recorder *)

\* the operation that opens the group of operation idx: the latest one at or
\* before idx that was recorded with clear = 1, the first one if there is none
GroupStart(idx) ==
    LET cleared == {j \in 0..idx : mac_clears[j] = 1}
    IN  IF cleared = {} THEN 0
        ELSE CHOOSE j \in cleared : \A j2 \in cleared : j2 <= j

\* the sum of input * weight over the recorded operations from..to
RECURSIVE SumProducts(_, _)
SumProducts(from, to) ==
    IF from > to THEN 0
    ELSE SumProducts(from, to - 1) + (mac_inputs[to] * mac_weights[to])

\* C18: the expected accumulator recorded for operation idx is the sum of
\* input * weight over the operations from the latest one with clear = 1 at
\* or before idx (from the first one if there is none) up to idx.
C18_ExpectedIsGroupSum ==
    \A idx \in 0..(mac_op_count - 1) :
        mac_expected[idx] = SumProducts(GroupStart(idx), idx)

\* three operations: one before any clear, one with clear, one that adds to it
C18_Witness ==
    /\ mac_op_count = 3
    /\ mac_clears[0] = 0 /\ mac_clears[1] = 1 /\ mac_clears[2] = 0
    /\ mac_inputs[0] = 3 /\ mac_weights[0] = 5
    /\ mac_expected[0] = 15
    /\ mac_expected[1] = 16384
    /\ mac_expected[2] = 16384 - 16256

----------------------------------------------------------------------------
(* Frame of the compute primitives *)

\* the layer keeps its fields, and every field but output and C keeps its value
LayerInputsUnchanged ==
    /\ DOMAIN layer' = DOMAIN layer
    /\ \A fld \in DOMAIN layer \ {"output", "C"} : layer'[fld] = layer[fld]

\* C19: no step of ref_mac, ref_gemv, ref_gemm, ref_gemv_tiled or
\* ref_gemm_tiled changes an input, weight, bias, A or B buffer or a
\* dimension: only the accumulator and the output buffers change.
C19_ComputeFrame ==
    [][ /\ input' = input /\ weights' = weights
        /\ input_dim' = input_dim /\ output_dim' = output_dim
        /\ A' = A /\ B' = B
        /\ M' = M /\ K' = K /\ N' = N
        /\ mac_input' = mac_input /\ mac_weight' = mac_weight
        /\ LayerInputsUnchanged ]_vars

\* ref_gemv has returned: it wrote the output of a layer with a bias
C19_Witness ==
    /\ pc = "gemv_direct_done"
    /\ layer.output_dim = 32
    /\ layer.input_dim = 8
    /\ layer.bias[1] = 10
    /\ layer.input[0] = 120
    /\ layer.weights[0] = -3
    /\ layer.output[0] # 0

----------------------------------------------------------------------------
(* The all-ones scenarios *)

\* C20: with all-ones weights and an all-ones input of length K every output
\* element is K: 8 for the 32 x 8 layer that ref_gemv computes, and 32 for
\* K = 32 (four full column tiles) that ref_gemv_tiled computes, where the
\* tiled output is also the directly computed one.
C20_AllOnesOutputIsK ==
    /\ pc = "gemv_direct_done" =>
          /\ layer.input_dim = 8
          /\ \A row \in 0..31 : layer.output[row] = 8
    /\ (pc = "gemv_done" /\ input_dim = 32) =>
          /\ \A row \in 0..31 : output[row] = 32
          /\ output = output_direct

\* the tiled call has returned after its four column tiles
C20_Witness ==
    /\ pc = "gemv_done"
    /\ input_dim = 32
    /\ output_dim = 32
    /\ tile_log = <<<<0, 0>>, <<0, 8>>, <<0, 16>>, <<0, 24>>>>
    /\ AllOnes(input) /\ AllOnes(weights)
    /\ output[31] = 32

----------------------------------------------------------------------------
(* accumulator range *)

Abs(x) == IF x < 0 THEN -x ELSE x

\* C21: starting from acc = 0, after n < 2^17 calls of ref_mac the
\* accumulator is the exact sum of the n products, so it has not overflowed
\* the 32-bit signed range, and its magnitude is at most n * 16384, whatever
\* int8 operands the products come from; the 256 accumulations of 127 * 127
\* of test_mac_edge_cases give 4129024.
C21_AccumulatorBound ==
    /\ calls = 0 =>
          \A inp \in Int8, wt \in Int8 : Abs(MacProduct(inp, wt)) <= 16384
    /\ calls < ChainLimit =>
          /\ Abs(acc) <= calls * 16384
          /\ acc = calls * MacProduct(mac_input, mac_weight)
          /\ acc \in INT32_MIN..INT32_MAX
    /\ (calls = 256 /\ mac_input = 127 /\ mac_weight = 127) =>
          acc = 4129024

\* the loop of test_mac_edge_cases has made its 256 calls
C21_Witness ==
    /\ pc = "mac_done"
    /\ calls = 256
    /\ mac_input = 127 /\ mac_weight = 127
    /\ acc_before = 4129024 - 16129
    /\ acc = 4129024

----------------------------------------------------------------------------
(* order of accumulation *)

\* the sum of the positive (sign = 1) or negative (sign = -1) products of
\* the pairs from index idx on
SignedProducts(pairs, idx, sign) ==
    LET F[x \in idx..(Len(pairs) + 1)] ==
            IF x > Len(pairs) THEN 0
            ELSE LET p == pairs[x][1] * pairs[x][2]
                 IN  (IF p * sign > 0 THEN p ELSE 0) + F[x + 1]
    IN  F[idx]

\* no order of the pairs overflows the accumulator on the way
ShortEnough(pairs, start) ==
    /\ start <= INT32_MAX - SignedProducts(pairs, 1, 1)
    /\ start >= INT32_MIN - SignedProducts(pairs, 1, -1)

\* the accumulators ref_mac leaves when the pairs are applied in the order
\* of the list
InOrder(pairs, start) ==
    LET F[x \in 0..Len(pairs)] ==
            IF x = 0 THEN {start}
            ELSE UNION {ref_mac(pairs[x][1], pairs[x][2], a) : a \in F[x - 1]}
    IN  F[Len(pairs)]

\* C22: for a list of int8 pairs short enough not to overflow, once
\* ref_mac has been applied to every pair, in whatever order, the accumulator
\* is the one value that applying the pairs in the order of the list, from
\* the same starting accumulator, yields.
C22_OrderIndependent ==
    (/\ Len(mac_order) = Len(mac_pairs)
     /\ ShortEnough(mac_pairs, acc_start))
        => InOrder(mac_pairs, acc_start) = {acc}

\* three pairs of different products have been applied last to first
C22_Witness ==
    /\ pc = "mac_done"
    /\ mac_pairs = <<<<127, 127>>, <<-10, 10>>, <<127, -128>>>>
    /\ mac_order = <<3, 2, 1>>
    /\ acc_start = INT32_MAX - 16200
    /\ acc = acc_start + 16129 - 100 - 16256

----------------------------------------------------------------------------
(* partial sums of ref_gemv_tiled *)

\* the sum of weights[row * input_dim + col] * input[col] over col < cnt
PrefixSum(row, cnt) == DotRange(row, 0, cnt)

\* the reduction tile at i_tile of the row tile at o_tile is finished: the
\* loop over o has run out and i_tile has not been advanced yet
GemvTileFinished == pc = "gemv_o" /\ o = o_end

\* C23: at the moment ref_gemv_tiled has fully processed the reduction tile
\* starting at i_tile of the row tile starting at o_tile, every row of that
\* row tile holds the prefix sum of weights[o * K + k] * input[k] over
\* k < min(i_tile + tile_cols, K), every row of an earlier row tile holds
\* its full sum and every row of a later row tile is still 0; rows of
\* earlier row tiles are not written again: as long as a row tile is being
\* processed the rows before it keep their full sums, the rows after it stay
\* 0 and every accumulation is into a row of that tile, and when a row tile
\* is left its rows hold their full sums too.
C23_PartialSums ==
    /\ GemvTileFinished =>
          \A row \in 0..(output_dim - 1) :
              /\ row < o_tile => output[row] = PrefixSum(row, input_dim)
              /\ row \in o_tile..(o_end - 1) =>
                    output[row] =
                       PrefixSum(row, MinOf(i_tile + SUBARRAY_COLS, input_dim))
              /\ row >= o_end => output[row] = 0
    /\ pc \in {"gemv_i_tile", "gemv_o", "gemv_i"} =>
          \A row \in 0..(output_dim - 1) :
              /\ row < o_tile => output[row] = PrefixSum(row, input_dim)
              /\ row >= o_end => output[row] = 0
    /\ (pc = "gemv_i" /\ i > i_tile) =>
          /\ last_mac = <<o, i - 1>>
          /\ o \in o_tile..(o_end - 1)
    /\ pc = "gemv_o_tile" =>
          \A row \in 0..(output_dim - 1) :
              output[row] = IF row < o_tile THEN PrefixSum(row, input_dim) ELSE 0

\* the second of three reduction tiles of the first row tile is finished,
\* and a ragged row tile is still to come
C23_Witness ==
    /\ GemvTileFinished
    /\ output_dim = SUBARRAY_ROWS + 1
    /\ input_dim = 2 * SUBARRAY_COLS + 1
    /\ o_tile = 0
    /\ i_tile = SUBARRAY_COLS
    /\ output[0] # 0
    /\ output[0] # PrefixSum(0, input_dim)
    /\ output[SUBARRAY_ROWS] = 0

----------------------------------------------------------------------------
(* capacity of the MAC op recorder *)

\* C24: the recorder never holds more than MAC_TEST_MAX_OPS operations:
\* mac_op_count stays in 0..512 whatever calls of mac_add_op are made, and a
\* call made when the recorder is full changes neither mac_op_count, nor the
\* running accumulator mac_acc, whatever clear is, nor any of the four
\* recorded arrays.
C24_RecorderCapacity ==
    /\ [](mac_op_count \in 0..MAC_TEST_MAX_OPS)
    /\ [][mac_op_count >= MAC_TEST_MAX_OPS =>
             /\ mac_op_count' = mac_op_count
             /\ mac_acc' = mac_acc
             /\ mac_inputs' = mac_inputs
             /\ mac_weights' = mac_weights
             /\ mac_clears' = mac_clears
             /\ mac_expected' = mac_expected]_vars

\* two calls have been made on a full recorder whose accumulator is not 0
C24_Witness ==
    /\ pc = "mac_add_op_done"
    /\ mac_op_count = MAC_TEST_MAX_OPS
    /\ Len(console) = 2
    /\ console[2] = <<"ERROR: MAC test ops overflow!">>
    /\ mac_acc = 16384 - 16256
    /\ mac_expected[MAC_TEST_MAX_OPS - 1] = mac_acc

----------------------------------------------------------------------------
(* widths other than 8 and 32 *)

\* C25: with a width other than 8 and 32, a load that opened its file
\* returns 0 and leaves the destination buffer and the file as they were,
\* whatever the file holds, and a dump that opened its destination leaves
\* it empty, whatever it held and however many elements were to be written,
\* and signals no error: it prints the message of a successful dump and
\* gives its caller no value.
C25_OtherWidths ==
    /\ (LoadDone /\ width \notin {8, 32}) =>
          /\ ret = <<0>>
          /\ hex_data = hex_before
          /\ file = file_before
          /\ console = <<>>
    /\ (DumpDone /\ width \notin {8, 32}) =>
          /\ file = <<>>
          /\ console = <<<<"Dumped", hex_len>>>>
          /\ ret = <<>>

\* the second call of a run has dumped two elements with width 16 into a
\* file that held a value
C25_Witness ==
    /\ DumpDone
    /\ calls = 2
    /\ width = 16
    /\ hex_len = 2
    /\ file_before = <<"1", "F", "\n">>
    /\ file = <<>>
    /\ dumped = <<hex_data, 2, 16>>

----------------------------------------------------------------------------
(* values above 0xFF in an 8-bit read *)

\* C26: an 8-bit load that opened its file does not reject a token of
\* hexadecimal digits whose value is above 0xFF: every leading token of
\* hexadecimal digits is counted, up to len, whatever its size, and is
\* stored as the one integer of [-128, 127] that is congruent to it modulo
\* 256, that is its low 8 bits read as a signed 8-bit integer: 1FF is stored
\* as -1 and 100 as 0.
C26_WideValueTruncated ==
    (LoadDone /\ width = 8) =>
        LET toks == Tokens(file)
            good == MinOf(hex_len, LeadingWellFormed(toks))
        IN  /\ ret[1] >= good
            /\ \A x \in 0..(good - 1) :
                  /\ hex_data[x] \in -128..127
                  /\ (LowBits(toks[x + 1])[2] - hex_data[x]) % 256 = 0
                  /\ toks[x + 1] = <<"1", "F", "F">> => hex_data[x] = -1
                  /\ toks[x + 1] = <<"1", "0", "0">> => hex_data[x] = 0

\* C26, amended: an 8-bit load that opened its file does not reject a value
\* above 0xFF: every number the file yields is counted, up to len, whatever
\* its size.  A number of at most 16 significant hexadecimal digits is
\* stored as the integer of [-128, 127] congruent to it modulo 256, its low
\* 8 bits read as a signed 8-bit integer (1FF as -1, 100 as 0); a number of
\* more digits is stored as -1, whatever its low 8 bits are.
C26_WideValueTruncatedOrSaturated ==
    (LoadDone /\ width = 8) =>
        LET vals == Yield(Tokens(file))
        IN  /\ ret = <<MinOf(hex_len, Len(vals))>>
            /\ \A x \in 0..(ret[1] - 1) :
                  /\ hex_data[x] \in -128..127
                  /\ (~vals[x + 1].neg /\ ~Saturated(vals[x + 1])) =>
                        (LowBits(vals[x + 1].ds)[2] - hex_data[x]) % 256 = 0
                  /\ Saturated(vals[x + 1]) => hex_data[x] = -1
                  /\ vals[x + 1] = [neg |-> FALSE, ds |-> <<"1", "F", "F">>]
                        => hex_data[x] = -1
                  /\ vals[x + 1] = [neg |-> FALSE, ds |-> <<"1", "0", "0">>]
                        => hex_data[x] = 0

\* the file 1FF, 1 was read: both values were counted, 1FF came out as -1
C26_Witness ==
    /\ LoadDone
    /\ width = 8
    /\ hex_len = 2
    /\ file = <<"1", "F", "F", "\n", "1">>
    /\ ret = <<2>>
    /\ hex_data[0] = -1
    /\ hex_data[1] = 1

====
